---- MODULE Spec2Model ----
(***************************************************************************)
(* A model of buildstream's scheduler Job (src/buildstream/_scheduler/     *)
(* job.py): one Job, the Workers it forks one after the other, the         *)
(* multiprocessing.Queue between them, and the parent's event-loop         *)
(* callbacks.  The Queue that dispatches the Job and owns the concurrency  *)
(* token is not part of the sources at hand; its two steps (reserve a      *)
(* token and construct the Job; the completion finalizer) follow the       *)
(* written specification.                                                  *)
(*                                                                         *)
(* Python's None is modelled by 0 (None).  The value an action returns and *)
(* the workspace descriptor a child reports are named by the attempt that  *)
(* produced them, so values of different attempts differ.  Asserts are     *)
(* enabled (the default interpreter mode).  Messages the parent emits      *)
(* itself (the STATUS lines of suspend/resume/terminate) go straight to    *)
(* the frontend and change no state of the Job: they are left out.         *)
(* SIGTERM has its default disposition in the child: a live child that is  *)
(* sent it dies at once, so that kill(), the escalation for a child that   *)
(* outlives SIGTERM, has nothing left to do and is not modelled.           *)
(*                                                                         *)
(* Seven specifications share the module:                                  *)
(*   Spec         one Job and its Workers, envelope by envelope;           *)
(*   AttemptSpec  one attempt of a Job step by step: the statements of     *)
(*                spawn(), a Process.start() that raises, and the Worker   *)
(*                stopped and continued by signals inside and outside its  *)
(*                suspendable scope;                                       *)
(*   SchedSpec    a scheduler run over the pipeline Stream.fetch builds    *)
(*                (src/buildstream/_stream.py, _scheduler/trackqueue.py):  *)
(*                Queues, tokens, Jobs seen from the Queue, interrupt and  *)
(*                suspend events.  Queue and Scheduler themselves are not  *)
(*                among the sources and follow the written specification;  *)
(*   SuspendSpec  the same run under suspend and resume only;              *)
(*   QuietSpec    the same run with no event from outside, under the       *)
(*                fairness the event loop gives its callbacks;             *)
(*   StreamSpec   the Stream calls around a scheduler run;                 *)
(*   TrackSpec    one call of TrackQueue.done over its arguments.          *)
(* Each specification leaves the variables of the others alone.            *)
(***************************************************************************)
EXTENDS Integers, Sequences, FiniteSets, TLC

\* ---------------------------------------------------------------- bounds
MaxRetries == 1     \* max_retries is drawn from 0..MaxRetries
MaxStops == 1       \* cap on scheduler.internal_stops
NItems == 2         \* elements of the pipeline: 1..NItems
MaxCapacity == 2    \* a resource class has 1..MaxCapacity tokens
MaxSignals == 2     \* suspend signals from outside during one run
NSources == 2       \* sources of the element handed to TrackQueue.done: 1..NSources

\* ------------------------------------------------------- program constants
None == 0           \* Python's None
RC_SIGTERM == -15   \* returncode of a child ended by Process.terminate()


VARIABLES
    \* --- Job fields (job.py, __init__)
    max_retries,      \* self.max_retries
    tries,            \* self.tries
    listening,        \* self.listening
    suspended,        \* self.suspended
    result,           \* self.result
    workspace_dict,   \* self.workspace_dict
    pid,              \* self.pid / self.process: index into procs, None before spawn
    queue,            \* self.queue: envelopes written by children and not yet read
    \* --- scheduler, event loop, context
    readers,          \* number of readers registered for the queue's fd
    watchers,         \* pids with a registered child handler
    sigtstp_handler,  \* the loop's SIGTSTP handler is installed
    internal_stops,   \* scheduler.internal_stops
    silent,           \* context.silent_messages()
    forwarded,        \* message types passed on to scheduler.context.message
                      \* since the last spawn()
    last_task_error,  \* the slot written by set_last_task_error
    \* --- operating system
    procs,            \* one record per forked child, in fork order
    \* --- the dispatching Queue
    phase,            \* "idle" | "created" | "active" | "final"
    tokens,           \* tokens of the Queue's class currently reserved for the Job
    \* --- history (observation only)
    completions,      \* every complete_cb call: [success, result], and returned,
                      \* what the action of the child just reaped had returned
    acquires,         \* how often a token was reserved
    releases,         \* how often a token was released
    terminated,       \* terminate() was called
    ws_assigned,      \* [att, n, total]: the attempt whose Workspace envelope was
                      \* stored last, how many envelopes of that attempt were
                      \* stored, and how many were stored in all
    assert_failed,    \* `assert self.result is None` was violated
    displayed,        \* how many WARN and FAIL messages the parent handed to
                      \* scheduler.context.message
    \* --- Stream and its inputs (_stream.py)
    method,           \* the Stream method called
    track_elements,   \* self._pipeline._track_elements, as a set
    consistency,      \* consistency[e]: what e._get_consistency() gives
    sources,          \* sources[e]: element e has at least one source
    has_fetch_remotes,\* self._pipeline._artifacts.has_fetch_remotes()
    has_push_remotes, \* self._pipeline._artifacts.has_push_remotes()
    queues,           \* the list handed to self._scheduler.run
    status,           \* the SchedStatus run() returned, "none" before
    raised,           \* how the Stream method ended, "none" before
    \* --- Queues (written specification, Queue state)
    ready,            \* ready[q]: FIFO of elements
    processing,       \* processing[q]: set of elements
    done,             \* done[q]: FIFO of [item, success, keep, skipped]
    active_jobs,      \* active_jobs[q]
    skipped_count,    \* skipped_count[q]
    processed_count,  \* processed_count[q]
    failed_count,     \* failed_count[q]
    jobs,             \* jobs[q][e]: the Job Queue q constructed for element e
    \* --- Scheduler (written specification, Scheduler state)
    capacity,         \* capacity[c]: tokens of resource class c
    reserved,         \* reserved[c]: tokens of class c currently reserved
    sched_state,      \* "START" | "RUNNING" | "STOPPING" | "returned"
    sched_suspended,  \* the scheduler is suspended
    interrupts,       \* interrupts received
    echoes,           \* suspend events on their way back from children
    \* --- history of a run (observation only)
    enqueued,         \* enqueued[q]: every element enqueued on q, in order
    dispatched,       \* <<q, e>> in the order the Jobs were spawned
    finalized,        \* <<q, e>> in the order complete_cb was invoked
    signals,          \* suspend signals received from outside
    sent,             \* suspend signals sent by Jobs
    absorbed,         \* inbound suspend events absorbed
    \* --- one attempt, step by step (job.py, spawn and child_action)
    spawn_pc,         \* where spawn() stands, "none" outside of it
    sigint_blocked,   \* SIGINT is blocked in the parent
    inherited,        \* what the child was forked with: its SIGINT mask and
                      \* whether the loop's SIGTSTP handler was installed
    stop_handled,     \* where the Worker stood when stop_time last ran
    \* --- one call of TrackQueue.done (trackqueue.py)
    tracking          \* the arguments of the call, the refs of the element's
                      \* sources, and what the call has done so far

jobVars == <<max_retries, tries, listening, suspended, result, workspace_dict, pid, queue>>
loopVars == <<readers, watchers, sigtstp_handler, internal_stops, silent,
              forwarded, last_task_error>>
queueVars == <<phase, tokens>>
histVars == <<completions, acquires, releases, terminated, ws_assigned, assert_failed,
              displayed>>
streamVars == <<method, track_elements, consistency, sources, has_fetch_remotes,
                has_push_remotes, queues, status, raised>>
pipelineVars == <<ready, processing, done, active_jobs, skipped_count,
                  processed_count, failed_count, jobs, capacity, reserved,
                  sched_state, sched_suspended, interrupts, echoes,
                  enqueued, dispatched, finalized, signals, sent, absorbed>>
attemptVars == <<spawn_pc, sigint_blocked, inherited, stop_handled>>
\* what the Job model leaves alone
beyondJob == <<streamVars, pipelineVars, attemptVars, tracking>>
vars == <<jobVars, loopVars, procs, queueVars, histVars, beyondJob>>

\* ------------------------------------------------------------- envelopes
\* att is the attempt (the child's copy of self.tries) that wrote the envelope.
Envelope(message_type, message, att) ==
    [message_type |-> message_type, message |-> message, att |-> att]

NoError == [domain |-> "none", reason |-> "none", att |-> 0]
BstErrorInfo(att) == [domain |-> "domain", reason |-> "reason", att |-> att]

\* _message.py: the message types a silent context still lets through
unconditional_messages == {"INFO", "WARN", "FAIL", "ERROR", "BUG"}

\* Variant: the last attempt that will be retried still shows FAIL.
child_message_handler_fail_early(q, message_type, t) ==
    LET shown == IF message_type = "FAIL" /\ t < max_retries
                 THEN "WARN" ELSE message_type
    IN  IF silent /\ shown \notin unconditional_messages THEN q
        ELSE IF shown = "LOG" THEN q
        ELSE Append(q, Envelope("message", shown, t))

\* child_message_handler: the queue after the child emitted message_type.
\* t is the child's copy of self.tries.
child_message_handler(q, message_type, t) ==
    LET shown == IF message_type = "FAIL" /\ t <= max_retries
                 THEN "WARN" ELSE message_type
    IN  IF silent /\ shown \notin unconditional_messages THEN q
        ELSE IF shown = "LOG" THEN q
        ELSE Append(q, Envelope("message", shown, t))

child_send_error(q, t) == Append(q, Envelope("error", BstErrorInfo(t), t))

\* Variant: the Result envelope is put on the queue twice.
child_send_result_twice(q, value, t) ==
    IF value # None
    THEN Append(Append(q, Envelope("result", value, t)), Envelope("result", value, t))
    ELSE q

child_send_result(q, value, t) ==
    IF value # None THEN Append(q, Envelope("result", value, t)) ELSE q

\* Variant: the Workspace envelope is put on the queue twice.
child_send_workspace_twice(q, workspace, t) ==
    IF workspace # None
    THEN Append(Append(q, Envelope("workspace", workspace, t)),
                Envelope("workspace", workspace, t))
    ELSE q

\* workspace is element._get_workspace(): None, or the descriptor to_dict() gives
child_send_workspace(q, workspace, t) ==
    IF workspace # None THEN Append(q, Envelope("workspace", workspace, t)) ELSE q

\* -------------------------------------------------- parent: envelope intake
\* The part of the parent's state parent_process_envelope reads and writes.
ParentState ==
    [listening |-> listening, result |-> result, workspace_dict |-> workspace_dict,
     last_task_error |-> last_task_error, forwarded |-> forwarded,
     ws_assigned |-> ws_assigned, raised |-> FALSE]

\* Variant: the Error envelope is stored where the result is kept.
parent_process_envelope_error_as_result(P, e) ==
    IF ~P.listening THEN P
    ELSE IF e.message_type = "message"
         THEN [P EXCEPT !.forwarded = Append(@, e.message)]
    ELSE IF e.message_type = "error"
         THEN [P EXCEPT !.last_task_error = e.message, !.result = e.att]
    ELSE IF e.message_type = "result"
         THEN IF P.result # None
              THEN [P EXCEPT !.raised = TRUE]
              ELSE [P EXCEPT !.result = e.message]
    ELSE [P EXCEPT !.workspace_dict = e.message,
                   !.ws_assigned = [att |-> e.att,
                                    n |-> IF @.att = e.att THEN @.n + 1 ELSE 1,
                                    total |-> @.total + 1]]

\* parent_process_envelope: P after envelope e; raised when the assert fails.
parent_process_envelope(P, e) ==
    IF ~P.listening THEN P
    ELSE IF e.message_type = "message"
         THEN [P EXCEPT !.forwarded = Append(@, e.message)]
    ELSE IF e.message_type = "error"
         THEN [P EXCEPT !.last_task_error = e.message]
    ELSE IF e.message_type = "result"
         THEN IF P.result # None
              THEN [P EXCEPT !.raised = TRUE]
              ELSE [P EXCEPT !.result = e.message]
    ELSE [P EXCEPT !.workspace_dict = e.message,
                   !.ws_assigned = [att |-> e.att,
                                    n |-> IF @.att = e.att THEN @.n + 1 ELSE 1,
                                    total |-> @.total + 1]]

\* Variant: one envelope is taken off the queue and dispatched, no more.
parent_process_queue_once(P, q) ==
    IF q = <<>> THEN [P |-> P, q |-> q]
    ELSE [P |-> parent_process_envelope(P, Head(q)), q |-> Tail(q)]

\* parent_process_queue: get_nowait and dispatch until the queue is empty or
\* an envelope raises; gives the parent state and what is left on the queue.
RECURSIVE parent_process_queue(_, _)
parent_process_queue(P, q) ==
    IF q = <<>> THEN [P |-> P, q |-> q]
    ELSE LET P2 == parent_process_envelope(P, Head(q))
         IN  IF P2.raised THEN [P |-> P2, q |-> Tail(q)]
             ELSE parent_process_queue(P2, Tail(q))

\* scheduler.context.message has been handed the messages of list now, of
\* which those of list before had been counted: the WARN and FAIL counts
Count(list, message) == Cardinality({i \in 1..Len(list) : list[i] = message})
Displayed(d, before, now) ==
    [WARN |-> d.WARN + Count(now, "WARN") - Count(before, "WARN"),
     FAIL |-> d.FAIL + Count(now, "FAIL") - Count(before, "FAIL")]

\* Variant: the flag is cleared and the reader stays with the event loop.
parent_stop_listening_keeps_reader(l, r) == r

\* parent_stop_listening on the state after the drain: the readers left
parent_stop_listening(l, r) == IF l THEN r - 1 ELSE r

\* parent_start_listening: the readers after it
parent_start_listening(l, r) == IF ~l THEN r + 1 ELSE r


\* ------------------------------------------------------------ processes
\* A forked child.  tries is its copy of self.tries; exit_code is the code
\* handed to child_shutdown, replaced by the signal's code when a signal
\* ends the child: the returncode the child watcher reports.
NewChild(t) ==
    [st |-> "running", pc |-> "start", tries |-> t, outcome |-> "pending",
     val |-> None, exit_code |-> None]

Pids == 1..Len(procs)
Alive(p) == procs[p].st \in {"running", "stopped"}
Steps(p, at) == p \in Pids /\ procs[p].st = "running" /\ procs[p].pc = at

\* The Job has a child the parent has not reaped yet.
InFlight == phase = "active" /\ pid # None /\ procs[pid].st # "reaped"

\* A signal that ends the process, sent to child c.  A dead process has
\* no position any more.
Signalled(c, code) ==
    IF c.st \in {"running", "stopped"}
    THEN [c EXCEPT !.st = "zombie", !.pc = "exited", !.exit_code = code]
    ELSE c

\* waitpid on child c: a zombie is gone.  Of a reaped child the record keeps
\* how its action ended and its returncode.
Reaped(c) == IF c.st = "zombie" THEN [c EXCEPT !.st = "reaped", !.val = None] ELSE c

\* ------------------------------------------- elements, queues, classes
Items == 1..NItems
QueueNames == {"Track", "Pull", "Fetch", "Build", "Push"}
QueueTypes == {"FETCH", "BUILD", "PUSH"}
SchedStatus == {"SUCCESS", "ERROR", "TERMINATED"}
Consistency == {"INCONSISTENT", "RESOLVED", "CACHED"}

\* A Job as its Queue sees it: none, one whose current Worker is running or
\* stopped, one that was terminated, or one that is final, with returncode.
NoJob == [st |-> "none", tries |-> 0, returncode |-> None, suspended |-> FALSE]

\* No Stream method was called, and the inputs play no part.
NoStream ==
    /\ method = "none"
    /\ track_elements = {}
    /\ consistency = [e \in Items |-> "RESOLVED"]
    /\ sources = [e \in Items |-> TRUE]
    /\ has_fetch_remotes = FALSE
    /\ has_push_remotes = FALSE
    /\ queues = <<>>
    /\ status = "none"
    /\ raised = "none"

\* Queues and scheduler as constructed, before anything is enqueued.
NoPipeline ==
    /\ ready = [q \in QueueNames |-> <<>>]
    /\ processing = [q \in QueueNames |-> {}]
    /\ done = [q \in QueueNames |-> <<>>]
    /\ active_jobs = [q \in QueueNames |-> 0]
    /\ skipped_count = [q \in QueueNames |-> 0]
    /\ processed_count = [q \in QueueNames |-> 0]
    /\ failed_count = [q \in QueueNames |-> 0]
    /\ jobs = [q \in QueueNames |-> [e \in Items |-> NoJob]]
    /\ capacity = [c \in QueueTypes |-> 1]
    /\ reserved = [c \in QueueTypes |-> 0]
    /\ sched_state = "START"
    /\ sched_suspended = FALSE
    /\ interrupts = 0
    /\ echoes = 0
    /\ enqueued = [q \in QueueNames |-> <<>>]
    /\ dispatched = <<>>
    /\ finalized = <<>>
    /\ signals = 0
    /\ sent = 0
    /\ absorbed = 0

\* TrackQueue.done is not called.
NoResult == [given |-> FALSE, refs |-> <<>>]
NoTrack ==
    tracking = [pc |-> "none", returncode |-> None, result |-> NoResult,
             save_fails |-> {}, refs |-> [s \in 1..NSources |-> None],
             read |-> FALSE, warned |-> 0, updated |-> FALSE,
             raised |-> FALSE, returned |-> FALSE]

\* No spawn() is under way, no child was forked, no handler has run.
NoInherit == [sigint_blocked |-> FALSE, sigtstp_handler |-> FALSE, forked |-> FALSE]
NoAttempt ==
    /\ spawn_pc = "none"
    /\ sigint_blocked = FALSE
    /\ inherited = NoInherit
    /\ stop_handled = "none"

\* ------------------------------------------------------------------ Init
Init ==
    /\ max_retries \in 0..MaxRetries
    /\ tries = 0
    /\ listening = FALSE
    /\ suspended = FALSE
    /\ result = None
    /\ workspace_dict = None
    /\ pid = None
    /\ queue = <<>>
    /\ readers = 0
    /\ watchers = {}
    /\ sigtstp_handler = TRUE
    /\ internal_stops = 0
    /\ silent \in BOOLEAN
    /\ forwarded = <<>>
    /\ last_task_error = NoError
    /\ procs = <<>>
    /\ phase = "idle"
    /\ tokens = 0
    /\ completions = <<>>
    /\ acquires = 0
    /\ releases = 0
    /\ terminated = FALSE
    /\ ws_assigned = [att |-> 0, n |-> 0, total |-> 0]
    /\ assert_failed = FALSE
    /\ displayed = [WARN |-> 0, FAIL |-> 0]
    /\ NoStream
    /\ NoPipeline
    /\ NoAttempt
    /\ NoTrack

\* ------------------------------------------------------ the Queue's steps
\* Dispatch, first half: reserve a token of the Queue's class, construct the Job.
queue_reserve ==
    /\ phase = "idle"
    /\ phase' = "created"
    /\ tokens' = tokens + 1
    /\ acquires' = acquires + 1
    /\ UNCHANGED <<jobVars, loopVars, procs, completions, releases, terminated,
                   ws_assigned, assert_failed, displayed, beyondJob>>

\* The Queue's finalizer, the Job's complete_cb: release the token, publish.
complete_cb(success, res, returned) ==
    /\ completions' = Append(completions,
           [success |-> success, result |-> res, returned |-> returned])
    /\ tokens' = tokens - 1
    /\ releases' = releases + 1
    /\ phase' = "final"

\* ------------------------------------------------------------ Job.spawn
\* spawn() entered with listening l, r readers, processes ps and watchers w.
\* SIGINT is blocked and the SIGTSTP handler removed around the fork, and
\* both are back when spawn() returns.
spawn(l, r, ps, w) ==
    /\ tries' = tries + 1
    /\ readers' = parent_start_listening(l, r)
    /\ listening' = TRUE
    /\ procs' = Append(ps, NewChild(tries + 1))
    /\ sigtstp_handler' = TRUE
    /\ pid' = Len(ps) + 1
    /\ watchers' = w \cup {Len(ps) + 1}
    /\ forwarded' = <<>>

\* Dispatch, second half: the Queue calls spawn() on the Job it constructed.
job_spawn ==
    /\ phase = "created"
    /\ phase' = "active"
    /\ spawn(listening, readers, procs, watchers)
    /\ UNCHANGED <<max_retries, suspended, result, workspace_dict, queue,
                   internal_stops, silent, last_task_error, tokens, histVars,
                   beyondJob>>


\* --------------------------------------------------- Worker: child_action
UNCHANGED_BY_CHILD ==
    UNCHANGED <<max_retries, tries, listening, suspended, result, workspace_dict,
                pid, loopVars, queueVars, histVars, beyondJob>>

\* setsid, set_message_handler, the START message and the environment LOG
child_action_start(p) ==
    /\ Steps(p, "start")
    /\ queue' = child_message_handler(
                    child_message_handler(queue, "START", procs[p].tries),
                    "LOG", procs[p].tries)
    /\ procs' = [procs EXCEPT ![p].pc = "action"]
    /\ UNCHANGED_BY_CHILD

\* result = self.action_cb(element) returns a value or None
child_action_run(p) ==
    /\ Steps(p, "action")
    /\ \E v \in {None, procs[p].tries} :
          procs' = [procs EXCEPT ![p].outcome = "ok", ![p].val = v,
                                 ![p].pc = "ok_workspace"]
    /\ UNCHANGED queue
    /\ UNCHANGED_BY_CHILD

\* self.action_cb(element) raises a BstError: the FAIL message
child_action_fail(p) ==
    /\ Steps(p, "action")
    /\ queue' = child_message_handler(queue, "FAIL", procs[p].tries)
    /\ procs' = [procs EXCEPT ![p].outcome = "domain", ![p].pc = "fail_workspace"]
    /\ UNCHANGED_BY_CHILD

\* self.child_send_workspace(element), on the BstError path and on success;
\* the element has a workspace or has none
child_action_workspace(p) ==
    /\ \/ Steps(p, "fail_workspace")
       \/ Steps(p, "ok_workspace")
    /\ \E workspace \in {None, procs[p].tries} :
          queue' = child_send_workspace(queue, workspace, procs[p].tries)
    /\ procs' = [procs EXCEPT
           ![p].pc = IF @ = "fail_workspace" THEN "fail_error" ELSE "ok_result"]
    /\ UNCHANGED_BY_CHILD

\* self.child_send_error(e); self.child_shutdown(1)
child_action_error(p) ==
    /\ Steps(p, "fail_error")
    /\ queue' = child_send_error(queue, procs[p].tries)
    /\ procs' = [procs EXCEPT ![p].pc = "shutdown", ![p].exit_code = 1]
    /\ UNCHANGED_BY_CHILD

\* Variant: the unhandled exception is reported to the parent like a BstError.
child_action_bug_sends_error(p) ==
    /\ Steps(p, "action")
    /\ queue' = child_send_error(
                    child_message_handler(queue, "BUG", procs[p].tries),
                    procs[p].tries)
    /\ procs' = [procs EXCEPT ![p].outcome = "bug", ![p].pc = "shutdown",
                               ![p].exit_code = 1]
    /\ UNCHANGED_BY_CHILD

\* self.action_cb(element) raises any other exception: the BUG message;
\* self.child_shutdown(1)
child_action_bug(p) ==
    /\ Steps(p, "action")
    /\ queue' = child_message_handler(queue, "BUG", procs[p].tries)
    /\ procs' = [procs EXCEPT ![p].outcome = "bug", ![p].pc = "shutdown",
                               ![p].exit_code = 1]
    /\ UNCHANGED_BY_CHILD

\* else: self.child_send_result(result)
child_action_result(p) ==
    /\ Steps(p, "ok_result")
    /\ queue' = child_send_result(queue, procs[p].val, procs[p].tries)
    /\ procs' = [procs EXCEPT ![p].pc = "ok_message"]
    /\ UNCHANGED_BY_CHILD

\* the SUCCESS message; self.child_shutdown(0)
child_action_success(p) ==
    /\ Steps(p, "ok_message")
    /\ queue' = child_message_handler(queue, "SUCCESS", procs[p].tries)
    /\ procs' = [procs EXCEPT ![p].pc = "shutdown", ![p].exit_code = 0]
    /\ UNCHANGED_BY_CHILD

\* child_shutdown: self.queue.close(); sys.exit(exit_code) raises SystemExit
child_shutdown(p) ==
    /\ Steps(p, "shutdown")
    /\ procs' = [procs EXCEPT ![p].pc = "exiting"]
    /\ UNCHANGED queue
    /\ UNCHANGED_BY_CHILD

\* SystemExit leaves the with block of child_action, which ends the scope
\* of _signals.suspendable, and the process exits
child_exit(p) ==
    /\ Steps(p, "exiting")
    /\ procs' = [procs EXCEPT ![p].st = "zombie", ![p].pc = "exited"]
    /\ UNCHANGED queue
    /\ UNCHANGED_BY_CHILD

\* ------------------------------------------------- parent: its callbacks
\* parent_recv: the reader registered for the queue's fd fires
parent_recv ==
    /\ listening
    /\ readers > 0
    /\ queue # <<>>
    /\ LET D == parent_process_queue(ParentState, queue)
       IN  /\ queue' = D.q
           /\ result' = D.P.result
           /\ workspace_dict' = D.P.workspace_dict
           /\ last_task_error' = D.P.last_task_error
           /\ forwarded' = D.P.forwarded
           /\ ws_assigned' = D.P.ws_assigned
           /\ assert_failed' = (assert_failed \/ D.P.raised)
           /\ displayed' = Displayed(displayed, forwarded, D.P.forwarded)
    /\ UNCHANGED <<max_retries, tries, listening, suspended, pid, readers, watchers,
                   sigtstp_handler, internal_stops, silent, procs,
                   queueVars, completions, acquires, releases, terminated,
                   beyondJob>>

\* Variant: the handler fires as soon as the child has entered child_shutdown.
ChildHandlerFiresEarly(p) ==
    p \in watchers /\ procs[p].pc \in {"shutdown", "exiting", "exited"}

\* spawn() registers parent_child_completed with the child watcher for
\* self.pid: the watcher calls it once that child has exited.
ChildHandlerFires(p) == p \in watchers /\ procs[p].st = "zombie"

\* Variant: one retry short.
RespawnsOffByOne(returncode, t, m) == returncode # 0 /\ t < m

\* parent_child_completed, line 431: the Job is spawned again
Respawns(returncode, t, m) == returncode # 0 /\ t <= m

\* Variant: complete_cb is called for a successful Job only.
CompletesOnSuccess(returncode, t, m) == returncode = 0

\* Variant: no return after spawn().
CompletesAlways(returncode, t, m) == TRUE

\* parent_child_completed, lines 433-435: return after spawn(), else complete_cb
Completes(returncode, t, m) == ~Respawns(returncode, t, m)

parent_child_completed(p) ==
    /\ p \in Pids
    /\ ChildHandlerFires(p)
    /\ LET returncode == procs[p].exit_code
           \* the watcher waited for the child and dropped its handler
           ps == [procs EXCEPT ![p] = Reaped(@)]
           w == watchers \ {p}
           \* parent_shutdown: parent_process_queue, then parent_stop_listening
           D == parent_process_queue(ParentState, queue)
           r == parent_stop_listening(D.P.listening, readers)
       IN  /\ queue' = D.q
           /\ result' = D.P.result
           /\ workspace_dict' = D.P.workspace_dict
           /\ last_task_error' = D.P.last_task_error
           /\ ws_assigned' = D.P.ws_assigned
           /\ assert_failed' = (assert_failed \/ D.P.raised)
           /\ displayed' = Displayed(displayed, forwarded, D.P.forwarded)
           /\ IF D.P.raised
              THEN \* the AssertionError leaves the callback
                   /\ procs' = ps
                   /\ watchers' = w
                   /\ forwarded' = D.P.forwarded
                   /\ UNCHANGED <<tries, listening, readers, pid, sigtstp_handler,
                                  completions, tokens, releases, phase>>
              ELSE /\ IF Respawns(returncode, tries, max_retries)
                      THEN spawn(FALSE, r, ps, w)
                      ELSE /\ procs' = ps
                           /\ watchers' = w
                           /\ forwarded' = D.P.forwarded
                           /\ listening' = FALSE
                           /\ readers' = r
                           /\ UNCHANGED <<tries, pid, sigtstp_handler>>
                   /\ IF Completes(returncode, tries, max_retries)
                      THEN complete_cb(returncode = 0, D.P.result, procs[p].val)
                      ELSE UNCHANGED <<completions, tokens, releases, phase>>
    /\ UNCHANGED <<max_retries, suspended, internal_stops, silent,
                   acquires, terminated, beyondJob>>


\* ------------------------------------------- Job: suspend, resume, terminate
\* os.kill(pid, SIGTSTP) to child c: a live child stops itself
Stopped(c) == IF c.st = "running" THEN [c EXCEPT !.st = "stopped"] ELSE c

\* os.kill(pid, SIGCONT) to child c
Continued(c) == IF c.st = "stopped" THEN [c EXCEPT !.st = "running"] ELSE c

\* suspend(): the child still has its pid (it is running, stopped or a
\* zombie), so os.kill does not raise.  The guard on internal_stops bounds
\* the model.
suspend ==
    /\ InFlight
    /\ suspended \/ internal_stops < MaxStops
    /\ IF ~suspended
       THEN /\ procs' = [procs EXCEPT ![pid] = Stopped(@)]
            /\ internal_stops' = internal_stops + 1
            /\ suspended' = TRUE
       ELSE UNCHANGED <<procs, internal_stops, suspended>>
    /\ UNCHANGED <<max_retries, tries, listening, result, workspace_dict, pid, queue,
                   readers, watchers, sigtstp_handler, silent, forwarded,
                   last_task_error, queueVars, histVars, beyondJob>>

\* resume()
resume ==
    /\ InFlight
    /\ IF suspended
       THEN /\ procs' = [procs EXCEPT ![pid] = Continued(@)]
            /\ suspended' = FALSE
       ELSE UNCHANGED <<procs, suspended>>
    /\ UNCHANGED <<max_retries, tries, listening, result, workspace_dict, pid, queue,
                   loopVars, queueVars, histVars, beyondJob>>

\* terminate(): resume(silent=True), parent_stop_listening(), then SIGTERM
terminate ==
    /\ InFlight
    /\ suspended' = FALSE
    /\ readers' = parent_stop_listening(listening, readers)
    /\ listening' = FALSE
    /\ procs' = [procs EXCEPT ![pid] =
                    Signalled(IF suspended THEN Continued(@) ELSE @, RC_SIGTERM)]
    /\ terminated' = TRUE
    /\ UNCHANGED <<max_retries, tries, result, workspace_dict, pid, queue, watchers,
                   sigtstp_handler, internal_stops, silent, forwarded,
                   last_task_error, queueVars, completions, acquires, releases,
                   ws_assigned, assert_failed, displayed, beyondJob>>

\* ------------------------------------------------------------------ Next
Next ==
    \/ queue_reserve
    \/ job_spawn
    \/ \E p \in Pids : child_action_start(p)
    \/ \E p \in Pids : child_action_run(p)
    \/ \E p \in Pids : child_action_fail(p)
    \/ \E p \in Pids : child_action_workspace(p)
    \/ \E p \in Pids : child_action_error(p)
    \/ \E p \in Pids : child_action_bug(p)
    \/ \E p \in Pids : child_action_result(p)
    \/ \E p \in Pids : child_action_success(p)
    \/ \E p \in Pids : child_shutdown(p)
    \/ \E p \in Pids : child_exit(p)
    \/ parent_recv
    \/ \E p \in Pids : parent_child_completed(p)
    \/ suspend
    \/ resume
    \/ terminate

Spec == Init /\ [][Next]_vars


\* ================================================================ Stream
\* The Job as constructed, with a context that is not silent.
JobFresh ==
    /\ tries = 0
    /\ listening = FALSE
    /\ suspended = FALSE
    /\ result = None
    /\ workspace_dict = None
    /\ pid = None
    /\ queue = <<>>
    /\ readers = 0
    /\ watchers = {}
    /\ sigtstp_handler = TRUE
    /\ internal_stops = 0
    /\ silent = FALSE
    /\ forwarded = <<>>
    /\ last_task_error = NoError
    /\ procs = <<>>
    /\ phase = "idle"
    /\ tokens = 0
    /\ completions = <<>>
    /\ acquires = 0
    /\ releases = 0
    /\ terminated = FALSE
    /\ ws_assigned = [att |-> 0, n |-> 0, total |-> 0]
    /\ assert_failed = FALSE
    /\ displayed = [WARN |-> 0, FAIL |-> 0]

\* The Job, unused.
JobUnused ==
    /\ max_retries = 0
    /\ JobFresh

\* The elements of set S as a list, in the order of the pipeline.
RECURSIVE ListOf(_)
ListOf(S) ==
    IF S = {} THEN <<>>
    ELSE LET m == CHOOSE x \in S : \A y \in S : x <= y
         IN  <<m>> \o ListOf(S \ {m})

\* [e for e in plan if e not in S]
Without(plan, S) ==
    LET kept(e) == e \notin S
    IN  SelectSeq(plan, kept)

\* The elements of a list
Elements(plan) == {plan[i] : i \in 1..Len(plan)}

\* Variant: the items are put at the head of the list.
enqueue_front(r, q, items) == [r EXCEPT ![q] = items \o @]

\* Queue.enqueue(items) on queue q: the ready lists after it
enqueue(r, q, items) == [r EXCEPT ![q] = @ \o items]

\* self._pipeline.dependencies(Scope.ALL), self._pipeline._plan() and the
\* lists handed to fetch, pull and push: every element, in pipeline order.
dependencies == ListOf(Items)

\* How each Stream method ends once self._scheduler.run has returned st:
\* "StreamError" for StreamError(), "StreamError_terminated" for
\* StreamError(terminated=True), "return" when it falls off its end.
track_ends(st) ==
    IF st = "ERROR" THEN "StreamError"
    ELSE IF st = "TERMINATED" THEN "StreamError_terminated"
    ELSE "return"

fetch_ends(st) ==
    IF st = "ERROR" THEN "StreamError"
    ELSE IF st = "TERMINATED" THEN "StreamError_terminated"
    ELSE "return"

build_ends(st) ==
    IF st = "ERROR" THEN "StreamError"
    ELSE IF st = "TERMINATED" THEN "StreamError_terminated"
    ELSE "return"

\* Variant: the TERMINATED branch is missing.
pull_ends_terminated_lost(st) ==
    IF st = "ERROR" THEN "StreamError" ELSE "return"

pull_ends(st) ==
    IF st = "ERROR" THEN "StreamError"
    ELSE IF st = "TERMINATED" THEN "StreamError_terminated"
    ELSE "return"

push_ends(st) ==
    IF st = "ERROR" THEN "StreamError"
    ELSE IF st = "TERMINATED" THEN "StreamError_terminated"
    ELSE "return"

\* Variant: the elements to be tracked stay in the fetch plan.
fetch_plan_keeps_tracked(deps, track, cons) ==
    LET is_cached == {e \in Elements(deps) : cons[e] = "CACHED"}
    IN  Without(deps, is_cached)

\* Stream.fetch, lines 82-95: the fetch plan
fetch_plan(deps, track, cons) ==
    LET untracked == IF track # {} THEN Without(deps, track) ELSE deps
        is_cached == {e \in Elements(untracked) : cons[e] = "CACHED"}
    IN  Without(untracked, is_cached)

\* Stream.fetch, lines 99-106: the queues
fetch_queues(track) ==
    IF track # {} THEN <<"Track", "Fetch">> ELSE <<"Fetch">>

\* Stream.fetch, lines 100-103: what is enqueued
fetch_enqueue(r, deps, track, cons) ==
    LET r1 == enqueue(r, "Fetch", fetch_plan(deps, track, cons))
    IN  IF track # {} THEN enqueue(r1, "Track", ListOf(track)) ELSE r1

\* Variant: the elements to be tracked stay in the build plan.
build_plan_keeps_tracked(deps, track) == deps

\* Stream.build, lines 132-133: the plan without the elements to track
build_plan(deps, track) == Without(deps, track)

\* Variant: Pull is appended after Fetch.
build_queues_pull_late(track, fetch_remotes, push_remotes) ==
    LET q0 == IF track # {} THEN <<"Track">> ELSE <<>>
        q1 == Append(q0, "Fetch")
        q2 == IF fetch_remotes THEN Append(q1, "Pull") ELSE q1
        q3 == Append(q2, "Build")
    IN  IF push_remotes THEN Append(q3, "Push") ELSE q3

\* Stream.build, lines 139-155: the queues
build_queues(track, fetch_remotes, push_remotes) ==
    LET q0 == IF track # {} THEN <<"Track">> ELSE <<>>
        q1 == IF fetch_remotes THEN Append(q0, "Pull") ELSE q0
        q2 == Append(q1, "Fetch")
        q3 == Append(q2, "Build")
    IN  IF push_remotes THEN Append(q3, "Push") ELSE q3

\* Stream.build, lines 160-164: what is enqueued
build_enqueue(r, qs, deps, track) ==
    IF track # {}
    THEN enqueue(enqueue(r, qs[1], ListOf(track)), qs[2], build_plan(deps, track))
    ELSE enqueue(r, qs[1], build_plan(deps, track))

\* The inputs of a Stream call.  _assert_consistent(plan) has passed: no
\* element of a plan is INCONSISTENT.
StreamInputs ==
    /\ method = "none"
    /\ track_elements \in SUBSET Items
    /\ consistency \in [Items -> {"RESOLVED", "CACHED"}]
    /\ sources = [e \in Items |-> TRUE]
    /\ has_fetch_remotes \in BOOLEAN
    /\ has_push_remotes \in BOOLEAN
    /\ queues = <<>>
    /\ status = "none"
    /\ raised = "none"

StreamInit ==
    /\ JobUnused
    /\ StreamInputs
    /\ NoPipeline
    /\ NoAttempt
    /\ NoTrack

StreamFrame ==
    UNCHANGED <<jobVars, loopVars, procs, queueVars, histVars,
                track_elements, consistency, sources, has_fetch_remotes,
                has_push_remotes, processing, done, active_jobs, skipped_count,
                processed_count, failed_count, jobs, capacity, reserved,
                sched_state, sched_suspended, interrupts, echoes,
                enqueued, dispatched, finalized, signals, sent, absorbed,
                attemptVars, tracking>>

\* Stream.track(); self._scheduler.run returns st
Stream_track ==
    /\ method = "none"
    /\ method' = "track"
    /\ queues' = <<"Track">>
    /\ ready' = enqueue(ready, "Track", ListOf(track_elements))
    /\ \E st \in SchedStatus :
          /\ status' = st
          /\ raised' = track_ends(st)
    /\ StreamFrame

\* Stream.fetch(dependencies)
Stream_fetch ==
    /\ method = "none"
    /\ method' = "fetch"
    /\ queues' = fetch_queues(track_elements)
    /\ ready' = fetch_enqueue(ready, dependencies, track_elements, consistency)
    /\ \E st \in SchedStatus :
          /\ status' = st
          /\ raised' = fetch_ends(st)
    /\ StreamFrame

\* Stream.build()
Stream_build ==
    /\ method = "none"
    /\ method' = "build"
    /\ LET qs == build_queues(track_elements, has_fetch_remotes, has_push_remotes)
       IN  /\ queues' = qs
           /\ ready' = build_enqueue(ready, qs, dependencies, track_elements)
    /\ \E st \in SchedStatus :
          /\ status' = st
          /\ raised' = build_ends(st)
    /\ StreamFrame

\* Stream.pull(elements): without fetch remotes it raises before any queue
\* is made
Stream_pull ==
    /\ method = "none"
    /\ method' = "pull"
    /\ IF ~has_fetch_remotes
       THEN /\ raised' = "StreamError"
            /\ UNCHANGED <<queues, ready, status>>
       ELSE /\ queues' = <<"Pull">>
            /\ ready' = enqueue(ready, "Pull", dependencies)
            /\ \E st \in SchedStatus :
                  /\ status' = st
                  /\ raised' = pull_ends(st)
    /\ StreamFrame

\* Stream.push(elements): without push remotes it raises before any queue
\* is made
Stream_push ==
    /\ method = "none"
    /\ method' = "push"
    /\ IF ~has_push_remotes
       THEN /\ raised' = "StreamError"
            /\ UNCHANGED <<queues, ready, status>>
       ELSE /\ queues' = <<"Push">>
            /\ ready' = enqueue(ready, "Push", dependencies)
            /\ \E st \in SchedStatus :
                  /\ status' = st
                  /\ raised' = push_ends(st)
    /\ StreamFrame

StreamNext ==
    \/ Stream_track
    \/ Stream_fetch
    \/ Stream_build
    \/ Stream_pull
    \/ Stream_push

StreamSpec == StreamInit /\ [][StreamNext]_vars


\* ============================================================= Scheduler
\* A run of the scheduler over the queues Stream.fetch hands it.
TrackQueue_queue_type == "FETCH"

\* The resource class a queue consumes
queue_type(q) ==
    CASE q = "Track" -> TrackQueue_queue_type
      [] q = "Build" -> "BUILD"
      [] q = "Push" -> "PUSH"
      [] OTHER -> "FETCH"

\* Variant: an element without sources is tracked like any other.
TrackQueue_status_never_skips(has_sources) == "READY"

\* TrackQueue.status(element): has_sources is bool(list(element.sources()))
TrackQueue_status(has_sources) ==
    IF ~has_sources THEN "SKIP" ELSE "READY"

\* The status hook of queue q for element e; the queues after Track have
\* their elements READY.
Queue_status(q, e) ==
    IF q = "Track" THEN TrackQueue_status(sources[e]) ELSE "READY"

\* Variant: a failed tracking Job is kept in the pipeline.
TrackQueue_done_keeps_failed(returncode) ==
    IF returncode # 0 THEN TRUE
    ELSE LET changed == FALSE
         IN  changed

\* TrackQueue.done(element, result, returncode): what it returns.  changed
\* is set to False and never to anything else.
TrackQueue_done(returncode) ==
    IF returncode # 0 THEN FALSE
    ELSE LET changed == FALSE
         IN  changed

\* The done hook of queue q: keep_in_pipeline
Queue_done(q, returncode) ==
    IF q = "Track" THEN TrackQueue_done(returncode) ELSE returncode = 0

\* The queue after q in the list handed to run(), "none" after the last
NextQueue(q) ==
    LET at == CHOOSE i \in 1..Len(queues) : queues[i] = q
    IN  IF at < Len(queues) THEN queues[at + 1] ELSE "none"

\* The part of the state a dispatch reads and writes.
SchedState ==
    [ready |-> ready, processing |-> processing, done |-> done,
     active_jobs |-> active_jobs, skipped_count |-> skipped_count,
     jobs |-> jobs, reserved |-> reserved, enqueued |-> enqueued,
     dispatched |-> dispatched]

\* Forward element e from queue q to the queue after it.
Forward(S, q, e) ==
    IF NextQueue(q) = "none" THEN S
    ELSE [S EXCEPT !.ready = enqueue(@, NextQueue(q), <<e>>),
                   !.enqueued[NextQueue(q)] = Append(@, e)]

\* Job.spawn() as the Queue sees it: tries + 1 and a running Worker
Spawned(j) == [j EXCEPT !.tries = @ + 1, !.st = "running", !.returncode = None]

\* A token of class c can be reserved.
TokenAvailable(S, c) == S.reserved[c] < capacity[c]

\* READY with a token to be had: reserve it, off the ready list and into
\* processing, construct the Job and spawn it.
DispatchReady(S, q, e) ==
    [S EXCEPT !.reserved[queue_type(q)] = @ + 1,
              !.processing[q] = @ \cup {e},
              !.active_jobs[q] = @ + 1,
              !.jobs[q][e] = Spawned(@),
              !.dispatched = Append(@, <<q, e>>)]

\* SKIP: off the ready list, counted, on the done list with a synthetic
\* success, and on to the next queue.
DispatchSkip(S, q, e) ==
    Forward([S EXCEPT !.skipped_count[q] = @ + 1,
                      !.done[q] = Append(@, [item |-> e, success |-> TRUE,
                                             keep |-> TRUE, skipped |-> TRUE])],
            q, e)

\* The dispatch of queue q: walk its ready list in order; rest is what is
\* still to be looked at, kept what was left in place.
RECURSIVE queue_dispatch(_, _, _, _)
queue_dispatch(S, q, rest, kept) ==
    IF rest = <<>> THEN [S EXCEPT !.ready[q] = kept]
    ELSE LET e == Head(rest)
             st == Queue_status(q, e)
         IN  IF st = "SKIP"
             THEN queue_dispatch(DispatchSkip(S, q, e), q, Tail(rest), kept)
             ELSE IF st = "READY" /\ TokenAvailable(S, queue_type(q))
             THEN queue_dispatch(DispatchReady(S, q, e), q, Tail(rest), kept)
             ELSE queue_dispatch(S, q, Tail(rest), Append(kept, e))

\* Walk the pipeline end to end, from queue number k on.
RECURSIVE sched_walk(_, _)
sched_walk(S, k) ==
    IF k > Len(queues) THEN S
    ELSE sched_walk(queue_dispatch(S, queues[k], S.ready[queues[k]], <<>>), k + 1)

InFlightJob(j) == j.st \in {"running", "stopped", "terminated"}
JobsInFlight == {qe \in QueueNames \X Items : InFlightJob(jobs[qe[1]][qe[2]])}

\* A Job ended in failure: the scheduler accepts no new dispatches.
Errored == \E q \in QueueNames : failed_count[q] > 0

\* The inputs of a run: what Stream.fetch is called with.  Of an element
\* to be tracked only its sources matter, of any other only its consistency.
SchedInit ==
    /\ JobFresh
    /\ max_retries \in 0..MaxRetries
    /\ method = "none"
    /\ track_elements \in SUBSET Items
    /\ consistency \in [Items -> {"RESOLVED", "CACHED"}]
    /\ \A e \in track_elements : consistency[e] = "RESOLVED"
    /\ sources \in [Items -> BOOLEAN]
    /\ \A e \in Items \ track_elements : sources[e]
    /\ has_fetch_remotes = FALSE
    /\ has_push_remotes = FALSE
    /\ queues = <<>>
    /\ status = "none"
    /\ raised = "none"
    /\ ready = [q \in QueueNames |-> <<>>]
    /\ processing = [q \in QueueNames |-> {}]
    /\ done = [q \in QueueNames |-> <<>>]
    /\ active_jobs = [q \in QueueNames |-> 0]
    /\ skipped_count = [q \in QueueNames |-> 0]
    /\ processed_count = [q \in QueueNames |-> 0]
    /\ failed_count = [q \in QueueNames |-> 0]
    /\ jobs = [q \in QueueNames |-> [e \in Items |-> NoJob]]
    /\ capacity \in [QueueTypes -> 1..MaxCapacity]
    /\ capacity["BUILD"] = 1
    /\ capacity["PUSH"] = 1
    /\ reserved = [c \in QueueTypes |-> 0]
    /\ sched_state = "START"
    /\ sched_suspended = FALSE
    /\ interrupts = 0
    /\ echoes = 0
    /\ enqueued = [q \in QueueNames |-> <<>>]
    /\ dispatched = <<>>
    /\ finalized = <<>>
    /\ signals = 0
    /\ sent = 0
    /\ absorbed = 0
    /\ NoAttempt
    /\ NoTrack

\* what a scheduler run leaves alone
SchedFrame ==
    UNCHANGED <<tries, listening, suspended, result, workspace_dict, pid, queue,
                readers, watchers, sigtstp_handler, silent, forwarded,
                last_task_error, procs, queueVars, histVars, max_retries,
                track_elements, consistency, sources, has_fetch_remotes,
                has_push_remotes, capacity, attemptVars, tracking>>

\* Stream.fetch up to self._scheduler.run(queues)
fetch_run ==
    /\ method = "none"
    /\ method' = "fetch"
    /\ queues' = fetch_queues(track_elements)
    /\ ready' = fetch_enqueue(ready, dependencies, track_elements, consistency)
    /\ enqueued' = [q \in QueueNames |-> ready'[q]]
    /\ sched_state' = "RUNNING"
    /\ UNCHANGED <<status, raised, processing, done, active_jobs, skipped_count,
                   processed_count, failed_count, jobs, reserved, sched_suspended,
                   interrupts, echoes, dispatched, finalized, signals, sent,
                   absorbed, internal_stops>>
    /\ SchedFrame

\* Variant: a stopping scheduler still dispatches.
DispatchingWhileStopping == sched_state \in {"RUNNING", "STOPPING"} /\ ~Errored

\* The scheduler dispatches: it is neither stopping after an interrupt nor
\* in error.
Dispatching == sched_state = "RUNNING" /\ ~Errored

\* One walk of the pipeline: every Queue dispatches what it can.
sched_dispatch ==
    /\ Dispatching
    /\ LET S == sched_walk(SchedState, 1)
       IN  /\ S # SchedState
           /\ ready' = S.ready
           /\ processing' = S.processing
           /\ done' = S.done
           /\ active_jobs' = S.active_jobs
           /\ skipped_count' = S.skipped_count
           /\ jobs' = S.jobs
           /\ reserved' = S.reserved
           /\ enqueued' = S.enqueued
           /\ dispatched' = S.dispatched
    /\ UNCHANGED <<method, queues, status, raised, processed_count, failed_count,
                   sched_state, sched_suspended, interrupts, echoes, finalized,
                   signals, sent, absorbed, internal_stops>>
    /\ SchedFrame

\* The Queue's finalizer, the Job's complete_cb: release the token, move the
\* element from processing to done, call the done hook, count, forward.
queue_finalize(q, e, returncode) ==
    LET success == returncode = 0
        keep == Queue_done(q, returncode)
        forward == keep /\ NextQueue(q) # "none"
    IN  /\ reserved' = [reserved EXCEPT ![queue_type(q)] = @ - 1]
        /\ processing' = [processing EXCEPT ![q] = @ \ {e}]
        /\ active_jobs' = [active_jobs EXCEPT ![q] = @ - 1]
        /\ done' = [done EXCEPT ![q] = Append(@, [item |-> e, success |-> success,
                                                 keep |-> keep, skipped |-> FALSE])]
        /\ processed_count' = [processed_count EXCEPT
                                  ![q] = IF success /\ keep THEN @ + 1 ELSE @]
        /\ skipped_count' = [skipped_count EXCEPT
                                  ![q] = IF success /\ ~keep THEN @ + 1 ELSE @]
        /\ failed_count' = [failed_count EXCEPT
                                  ![q] = IF ~success THEN @ + 1 ELSE @]
        /\ ready' = IF forward THEN enqueue(ready, NextQueue(q), <<e>>) ELSE ready
        /\ enqueued' = IF forward
                       THEN [enqueued EXCEPT ![NextQueue(q)] = Append(@, e)]
                       ELSE enqueued
        /\ finalized' = Append(finalized, <<q, e>>)

\* Job.parent_child_completed as the Queue sees it: the running Worker has
\* exited with returncode and is reaped; the Job is spawned again or its
\* complete_cb is called.
job_completed(q, e) ==
    /\ sched_state \in {"RUNNING", "STOPPING"}
    /\ jobs[q][e].st = "running"
    /\ \E returncode \in {0, 1} :
          LET j == jobs[q][e]
          IN  /\ IF Respawns(returncode, j.tries, max_retries)
                 THEN jobs' = [jobs EXCEPT ![q][e] = Spawned(@)]
                 ELSE jobs' = [jobs EXCEPT ![q][e].st = "final",
                                           ![q][e].returncode = returncode]
              /\ IF Completes(returncode, j.tries, max_retries)
                 THEN queue_finalize(q, e, returncode)
                 ELSE UNCHANGED <<reserved, processing, active_jobs, done,
                                  processed_count, skipped_count, failed_count,
                                  ready, enqueued, finalized>>
    /\ UNCHANGED <<method, queues, status, raised, sched_state, sched_suspended,
                   interrupts, echoes, dispatched, signals, sent, absorbed,
                   internal_stops>>
    /\ SchedFrame

\* Job.terminate() as the Queue sees it
Terminated(j) ==
    IF InFlightJob(j)
    THEN [j EXCEPT !.suspended = FALSE, !.returncode = RC_SIGTERM,
                   !.st = "terminated"]
    ELSE j

\* The interrupt handler.  The first interrupt stops the dispatching; the
\* second terminates every Job in flight, waits for the Workers and ends
\* the run.
interrupt ==
    /\ sched_state \in {"RUNNING", "STOPPING"}
    /\ interrupts' = interrupts + 1
    /\ IF interrupts = 0
       THEN /\ sched_state' = "STOPPING"
            /\ UNCHANGED <<jobs, status, sched_suspended>>
       ELSE /\ jobs' = [q \in QueueNames |-> [e \in Items |-> Terminated(jobs[q][e])]]
            /\ sched_state' = "returned"
            /\ status' = "TERMINATED"
            /\ sched_suspended' = FALSE
    /\ UNCHANGED <<method, queues, raised, ready, processing, done, active_jobs,
                   skipped_count, processed_count, failed_count, reserved, echoes,
                   enqueued, dispatched, finalized, signals, sent, absorbed,
                   internal_stops>>
    /\ SchedFrame

\* Variant: the counter goes up on every call.
suspend_stops_always(susp, stops) == stops + 1

\* Job.suspend(), line 208: scheduler.internal_stops after suspend() on a
\* Job whose suspended flag is susp
suspend_stops(susp, stops) == IF ~susp THEN stops + 1 ELSE stops

\* Job.suspend() as the Queue sees it: SIGTSTP stops a running Worker
Suspended(j) ==
    IF ~j.suspended
    THEN [j EXCEPT !.suspended = TRUE, !.st = IF @ = "running" THEN "stopped" ELSE @]
    ELSE j

\* Job.resume() as the Queue sees it: SIGCONT continues a stopped Worker
Resumed(j) ==
    IF j.suspended
    THEN [j EXCEPT !.suspended = FALSE, !.st = IF @ = "stopped" THEN "running" ELSE @]
    ELSE j

\* scheduler.internal_stops after suspend() was called on every Job of set J
RECURSIVE broadcast_stops(_, _)
broadcast_stops(J, stops) ==
    IF J = {} THEN stops
    ELSE LET qe == CHOOSE x \in J : TRUE
         IN  broadcast_stops(J \ {qe},
                             suspend_stops(jobs[qe[1]][qe[2]].suspended, stops))

\* The Jobs of set J that send their Worker a SIGTSTP when suspended, and
\* those whose Worker is there to echo it.
Signalling(J) == {qe \in J : ~jobs[qe[1]][qe[2]].suspended}
Echoing(J) == {qe \in Signalling(J) : jobs[qe[1]][qe[2]].st = "running"}

\* The suspend event handler, for an event echoed by a child (external is
\* FALSE) or a signal from outside (TRUE).
suspend_event(external) ==
    /\ sched_state \in {"RUNNING", "STOPPING"}
    /\ IF external
       THEN /\ signals < MaxSignals
            /\ signals' = signals + 1
       ELSE /\ echoes > 0
            /\ UNCHANGED signals
    /\ IF internal_stops > 0
       THEN /\ internal_stops' = internal_stops - 1
            /\ absorbed' = absorbed + 1
            /\ echoes' = IF external THEN echoes ELSE echoes - 1
            /\ UNCHANGED <<jobs, sched_suspended, sent>>
       ELSE /\ jobs' = [q \in QueueNames |-> [e \in Items |->
                           IF InFlightJob(jobs[q][e]) THEN Suspended(jobs[q][e])
                           ELSE jobs[q][e]]]
            /\ internal_stops' = broadcast_stops(JobsInFlight, internal_stops)
            /\ sent' = sent + Cardinality(Signalling(JobsInFlight))
            /\ echoes' = (IF external THEN echoes ELSE echoes - 1)
                         + Cardinality(Echoing(JobsInFlight))
            /\ sched_suspended' = TRUE
            /\ UNCHANGED absorbed
    /\ UNCHANGED <<method, queues, status, raised, ready, processing, done,
                   active_jobs, skipped_count, processed_count, failed_count,
                   reserved, sched_state, interrupts, enqueued, dispatched,
                   finalized>>
    /\ SchedFrame

\* The continue event handler: resume every suspended Job.
continue_event ==
    /\ sched_state \in {"RUNNING", "STOPPING"}
    /\ sched_suspended
    /\ jobs' = [q \in QueueNames |-> [e \in Items |->
                   IF InFlightJob(jobs[q][e]) THEN Resumed(jobs[q][e])
                   ELSE jobs[q][e]]]
    /\ sched_suspended' = FALSE
    /\ UNCHANGED <<method, queues, status, raised, ready, processing, done,
                   active_jobs, skipped_count, processed_count, failed_count,
                   reserved, sched_state, interrupts, echoes, enqueued, dispatched,
                   finalized, signals, sent, absorbed, internal_stops>>
    /\ SchedFrame

\* run() returns: no Job is in flight and no Queue can progress.
sched_return ==
    /\ sched_state \in {"RUNNING", "STOPPING"}
    /\ JobsInFlight = {}
    /\ sched_state = "STOPPING" \/ Errored \/ sched_walk(SchedState, 1) = SchedState
    /\ sched_state' = "returned"
    /\ status' = IF interrupts > 0 THEN "TERMINATED"
                 ELSE IF Errored THEN "ERROR"
                 ELSE "SUCCESS"
    /\ UNCHANGED <<method, queues, raised, ready, processing, done, active_jobs,
                   skipped_count, processed_count, failed_count, jobs, reserved,
                   sched_suspended, interrupts, echoes, enqueued, dispatched,
                   finalized, signals, sent, absorbed, internal_stops>>
    /\ SchedFrame

\* Stream.fetch from the return of self._scheduler.run(queues) on
fetch_return ==
    /\ sched_state = "returned"
    /\ raised = "none"
    /\ raised' = fetch_ends(status)
    /\ UNCHANGED <<method, queues, status, ready, processing, done, active_jobs,
                   skipped_count, processed_count, failed_count, jobs, reserved,
                   sched_state, sched_suspended, interrupts, echoes, enqueued,
                   dispatched, finalized, signals, sent, absorbed, internal_stops>>
    /\ SchedFrame

SchedNext ==
    \/ fetch_run
    \/ sched_dispatch
    \/ \E q \in QueueNames : \E e \in Items : job_completed(q, e)
    \/ interrupt
    \/ sched_return
    \/ fetch_return

SchedSpec == SchedInit /\ [][SchedNext]_vars

\* A run in which every element is tracked and has sources, with suspend
\* and continue events and no interrupt.
SuspendInit ==
    /\ SchedInit
    /\ track_elements = Items
    /\ \A e \in Items : sources[e]

SuspendNext ==
    \/ fetch_run
    \/ sched_dispatch
    \/ \E q \in QueueNames : \E e \in Items : job_completed(q, e)
    \/ \E external \in BOOLEAN : suspend_event(external)
    \/ continue_event
    \/ sched_return
    \/ fetch_return

SuspendSpec == SuspendInit /\ [][SuspendNext]_vars


\* A run in which no signal arrives, every Worker exits in the end and the
\* event loop keeps turning: what can happen does.
QuietNext ==
    \/ fetch_run
    \/ sched_dispatch
    \/ \E q \in QueueNames : \E e \in Items : job_completed(q, e)
    \/ sched_return
    \/ fetch_return

QuietSpec ==
    /\ SchedInit
    /\ [][QuietNext]_vars
    /\ WF_vars(sched_dispatch)
    /\ WF_vars(\E q \in QueueNames : \E e \in Items : job_completed(q, e))
    /\ WF_vars(sched_return)

\* ============================================================ one attempt
\* One call of spawn() and the Worker it forks, statement by statement.
\* The parent is busy elsewhere and reads nothing, so that the queue holds
\* every envelope the Worker has written.

\* An earlier attempt, number t, that failed with a BstError and was reaped
FailedChild(t) ==
    [st |-> "reaped", pc |-> "exited", tries |-> t, outcome |-> "domain",
     val |-> None, exit_code |-> 1]

\* The Job when spawn() is called: by the Queue for the first attempt, by
\* parent_child_completed after attempts that failed.
AttemptInit ==
    /\ max_retries \in 0..MaxRetries
    /\ tries \in 0..max_retries
    /\ listening = FALSE
    /\ suspended = FALSE
    /\ result = None
    /\ workspace_dict = None
    /\ pid = (IF tries = 0 THEN None ELSE tries)
    /\ queue = <<>>
    /\ readers = 0
    /\ watchers = {}
    /\ sigtstp_handler = TRUE
    /\ internal_stops = 0
    /\ silent \in BOOLEAN
    /\ forwarded = <<>>
    /\ last_task_error = (IF tries = 0 THEN NoError ELSE BstErrorInfo(tries))
    /\ procs = [t \in 1..tries |-> FailedChild(t)]
    /\ phase = (IF tries = 0 THEN "created" ELSE "active")
    /\ tokens = 1
    /\ completions = <<>>
    /\ acquires = 1
    /\ releases = 0
    /\ terminated = FALSE
    /\ ws_assigned = [att |-> 0, n |-> 0, total |-> 0]
    /\ assert_failed = FALSE
    /\ displayed = [WARN |-> tries, FAIL |-> 0]
    /\ NoStream
    /\ NoPipeline
    /\ NoAttempt
    /\ NoTrack

\* spawn(), lines 122-128: self.tries += 1; self.parent_start_listening();
\* the Process object
spawn_enter ==
    /\ spawn_pc = "none"
    /\ Len(procs) = tries
    /\ spawn_pc' = "block"
    /\ tries' = tries + 1
    /\ readers' = parent_start_listening(listening, readers)
    /\ listening' = TRUE
    /\ phase' = "active"
    /\ UNCHANGED <<max_retries, suspended, result, workspace_dict, pid, queue,
                   watchers, sigtstp_handler, internal_stops, silent, forwarded,
                   last_task_error, procs, tokens, histVars, streamVars,
                   pipelineVars, tracking, sigint_blocked, inherited, stop_handled>>

\* line 135: with _signals.blocked([signal.SIGINT], ignore=False)
spawn_block ==
    /\ spawn_pc = "block"
    /\ spawn_pc' = "remove"
    /\ sigint_blocked' = TRUE
    /\ UNCHANGED <<jobVars, loopVars, procs, queueVars, histVars, streamVars,
                   pipelineVars, tracking, inherited, stop_handled>>

\* line 136: self.scheduler.loop.remove_signal_handler(signal.SIGTSTP)
spawn_remove_handler ==
    /\ spawn_pc = "remove"
    /\ spawn_pc' = "start"
    /\ sigtstp_handler' = FALSE
    /\ UNCHANGED <<jobVars, readers, watchers, internal_stops, silent, forwarded,
                   last_task_error, procs, queueVars, histVars, streamVars,
                   pipelineVars, tracking, sigint_blocked, inherited, stop_handled>>

\* line 137: self.process.start() forks; the child takes the signal mask
\* and the handlers of the parent with it
spawn_start ==
    /\ spawn_pc = "start"
    /\ spawn_pc' = "add"
    /\ procs' = Append(procs, NewChild(tries))
    /\ inherited' = [sigint_blocked |-> sigint_blocked,
                     sigtstp_handler |-> sigtstp_handler, forked |-> TRUE]
    /\ UNCHANGED <<jobVars, loopVars, queueVars, histVars, streamVars,
                   pipelineVars, tracking, sigint_blocked, stop_handled>>

\* line 137: self.process.start() raises (fork fails).  The exception leaves
\* the with block, whose exit gives SIGINT its old mask back, and spawn().
spawn_start_raises ==
    /\ spawn_pc = "start"
    /\ spawn_pc' = "raised"
    /\ sigint_blocked' = FALSE
    /\ UNCHANGED <<jobVars, loopVars, procs, queueVars, histVars, streamVars,
                   pipelineVars, tracking, inherited, stop_handled>>

\* line 138: self.scheduler.loop.add_signal_handler(signal.SIGTSTP, ...)
spawn_add_handler ==
    /\ spawn_pc = "add"
    /\ spawn_pc' = "unblock"
    /\ sigtstp_handler' = TRUE
    /\ UNCHANGED <<jobVars, readers, watchers, internal_stops, silent, forwarded,
                   last_task_error, procs, queueVars, histVars, streamVars,
                   pipelineVars, tracking, sigint_blocked, inherited, stop_handled>>

\* the end of the with block: SIGINT gets its old mask back
spawn_unblock ==
    /\ spawn_pc = "unblock"
    /\ spawn_pc' = "watch"
    /\ sigint_blocked' = FALSE
    /\ UNCHANGED <<jobVars, loopVars, procs, queueVars, histVars, streamVars,
                   pipelineVars, tracking, inherited, stop_handled>>

\* lines 140-144: self.pid, the child watcher and its handler
spawn_watch ==
    /\ spawn_pc = "watch"
    /\ spawn_pc' = "returned"
    /\ pid' = Len(procs)
    /\ watchers' = watchers \cup {Len(procs)}
    /\ UNCHANGED <<max_retries, tries, listening, suspended, result,
                   workspace_dict, queue, readers, sigtstp_handler,
                   internal_stops, silent, forwarded, last_task_error, procs,
                   queueVars, histVars, streamVars, pipelineVars, tracking,
                   sigint_blocked, inherited, stop_handled>>

\* The Worker stands inside the with block of child_action, lines 267-328,
\* where the handlers of _signals.suspendable are installed: from the START
\* message to the SystemExit that sys.exit raises in child_shutdown, which
\* all three branches call inside the block.
InScope(c) ==
    /\ c.st \in {"running", "stopped"}
    /\ c.pc \in {"action", "ok_workspace", "fail_workspace", "fail_error",
                 "ok_result", "ok_message", "shutdown", "exiting"}

\* SIGTSTP reaches Worker p, from Job.suspend() or from elsewhere: inside
\* the scope stop_time runs first; the Worker stops.
child_sigtstp(p) ==
    /\ p \in Pids
    /\ procs[p].st = "running"
    /\ procs' = [procs EXCEPT ![p] = Stopped(@)]
    /\ stop_handled' = IF InScope(procs[p]) THEN procs[p].pc ELSE stop_handled
    /\ UNCHANGED <<jobVars, loopVars, queueVars, histVars, streamVars,
                   pipelineVars, tracking, spawn_pc, sigint_blocked, inherited>>

\* SIGCONT reaches Worker p: it goes on; inside the scope resume_time runs.
child_sigcont(p) ==
    /\ p \in Pids
    /\ procs[p].st = "stopped"
    /\ procs' = [procs EXCEPT ![p] = Continued(@)]
    /\ UNCHANGED <<jobVars, loopVars, queueVars, histVars, streamVars,
                   pipelineVars, tracking, attemptVars>>

AttemptNext ==
    \/ spawn_enter
    \/ spawn_block
    \/ spawn_remove_handler
    \/ spawn_start
    \/ spawn_start_raises
    \/ spawn_add_handler
    \/ spawn_unblock
    \/ spawn_watch
    \/ \E p \in Pids : child_action_start(p)
    \/ \E p \in Pids : child_action_run(p)
    \/ \E p \in Pids : child_action_fail(p)
    \/ \E p \in Pids : child_action_workspace(p)
    \/ \E p \in Pids : child_action_error(p)
    \/ \E p \in Pids : child_action_bug(p)
    \/ \E p \in Pids : child_action_result(p)
    \/ \E p \in Pids : child_action_success(p)
    \/ \E p \in Pids : child_shutdown(p)
    \/ \E p \in Pids : child_exit(p)
    \/ \E p \in Pids : child_sigtstp(p)
    \/ \E p \in Pids : child_sigcont(p)
    \/ terminate

AttemptSpec == AttemptInit /\ [][AttemptNext]_vars

\* ====================================================== TrackQueue.done
\* One call of TrackQueue.done(element, result, returncode) in the main
\* process.  The element has the sources 1..NSources; refs[s] is the ref of
\* source s in the project file, None when it has none.  result.refs is the
\* list of <<unique_id, new_ref>> the Worker sent; result.given is FALSE when
\* the argument is None.  save_fails is the set of sources whose _save_ref
\* raises SourceError.

\* The lists of <<unique_id, new_ref>> over the sources s..NSources, in the
\* order of the element's sources, each source at most once.
RECURSIVE ResultLists(_)
ResultLists(s) ==
    IF s > NSources THEN {<<>>}
    ELSE LET rest == ResultLists(s + 1)
         IN  rest \cup {<<<<s, r>>>> \o l : r \in {1, 2}, l \in rest}

\* The arguments a finished Track Job hands to done: with exit code 0 the
\* Worker has sent its list; with another one the result is None or what an
\* earlier attempt left behind.
TrackInit ==
    /\ JobUnused
    /\ NoStream
    /\ NoPipeline
    /\ NoAttempt
    /\ \E rc \in {0, 1, RC_SIGTERM}, given \in BOOLEAN,
          l \in ResultLists(1), f \in SUBSET (1..NSources),
          old \in [1..NSources -> {None, 1}] :
          /\ rc = 0 => given
          /\ ~given => l = <<>>
          /\ tracking = [pc |-> "called", returncode |-> rc,
                         result |-> [given |-> given, refs |-> l],
                         save_fails |-> f, refs |-> old,
                         read |-> FALSE, warned |-> 0, updated |-> FALSE,
                         raised |-> FALSE, returned |-> FALSE]

\* Variant: the SourceError is not caught.
save_ref_uncaught(t, unique_id, new_ref) ==
    IF unique_id \in t.save_fails
    THEN [t EXCEPT !.raised = TRUE]
    ELSE [t EXCEPT !.refs[unique_id] = new_ref]

\* source._save_ref(new_ref), line 63: the ref is written to the project
\* file, or SourceError is raised and the project file is as before.  The
\* SourceError is caught and the source warns.
save_ref(t, unique_id, new_ref) ==
    IF unique_id \in t.save_fails
    THEN [t EXCEPT !.warned = @ + 1]                       \* lines 64-71
    ELSE [t EXCEPT !.refs[unique_id] = new_ref]

\* Lines 60-71: the loop over result, from its i-th entry on.  An exception
\* that is not caught ends the loop and the call.
RECURSIVE save_refs(_, _)
save_refs(t, i) ==
    IF i > Len(t.result.refs) \/ t.raised THEN t
    ELSE save_refs(save_ref(t, t.result.refs[i][1], t.result.refs[i][2]), i + 1)

\* Variant: the return code is not looked at.
TrackQueue_done_effects_unguarded(t) ==
    LET read == [t EXCEPT !.read = TRUE]
        saved == save_refs(read, 1)
    IN  IF saved.raised THEN saved ELSE [saved EXCEPT !.updated = TRUE]

\* TrackQueue.done, lines 52-79: what it does to the element.
TrackQueue_done_effects(t) ==
    IF t.returncode # 0 THEN t                             \* lines 54-55
    ELSE LET read == [t EXCEPT !.read = TRUE]              \* line 60
             saved == save_refs(read, 1)
         IN  IF saved.raised THEN saved
             ELSE [saved EXCEPT !.updated = TRUE]          \* line 75

\* The whole call: its effects, and the value it returns unless it raised.
track_done ==
    /\ tracking.pc = "called"
    /\ LET t == TrackQueue_done_effects(tracking)
       IN  tracking' = IF t.raised THEN [t EXCEPT !.pc = "raised"]
                       ELSE [t EXCEPT !.pc = "returned",
                                      !.returned = TrackQueue_done(t.returncode)]
    /\ UNCHANGED <<jobVars, loopVars, procs, queueVars, histVars, streamVars,
                   pipelineVars, attemptVars>>

\* What the Scheduler makes of the call, after the written specification: a
\* done hook that raised is fatal and takes the run to ERROR.
Scheduler_fatal(t) == t.pc = "raised"

TrackNext == track_done

TrackSpec == TrackInit /\ [][TrackNext]_vars

\* =============================================================== claims
Completed == completions # <<>>
Spawns == Len(procs)
Exited(c) == c.st \in {"zombie", "reaped"}
AllReaped == Spawns >= 1 /\ \A p \in Pids : procs[p].st = "reaped"

\* The attempt raised a BstError and left through child_shutdown(1).
DomainFailure(c) == Exited(c) /\ c.outcome = "domain" /\ c.exit_code = 1

\* The attempt's action returned and the child left through child_shutdown(0).
Succeeded(c) == Exited(c) /\ c.outcome = "ok" /\ c.exit_code = 0

\* C1: complete_cb is invoked exactly once per Job: never twice, and once
\* every worker of the Job has been reaped it has been invoked.
C1_CompleteExactlyOnce ==
    /\ Len(completions) <= 1
    /\ AllReaped => Len(completions) = 1

\* C2: when every attempt failed with a domain error, a Job with
\* max_retries = N is spawned exactly N+1 times (never more on the way), and
\* complete_cb is then called, once, with success = false.
C2_DomainFailuresSpawnNPlusOne ==
    (\A p \in Pids : DomainFailure(procs[p])) =>
        /\ Spawns <= max_retries + 1
        /\ tries = Spawns
        /\ AllReaped => /\ Spawns = max_retries + 1
                        /\ Len(completions) = 1
                        /\ ~completions[1].success
        /\ Completed => AllReaped

C2_Witness ==
    /\ max_retries >= 1
    /\ Completed
    /\ \A p \in Pids : DomainFailure(procs[p])

\* C3: a worker is spawned again only after an attempt that failed with a
\* domain error; never after a bug or after a death by signal.
C3_OnlyDomainFailuresRetried ==
    [][(Spawns >= 1 /\ Len(procs') > Spawns) => DomainFailure(procs[Spawns])]_vars

\* C4: at every moment a Job has at most one child that is not reaped.
C4_AtMostOneWorker ==
    Cardinality({p \in Pids : procs[p].st # "reaped"}) <= 1

C4_Witness ==
    /\ Spawns >= 2
    /\ procs[1].st = "reaped"
    /\ procs[Spawns].st = "running"

\* C5: complete_cb called with success = false gets result None; called with
\* success = true it gets what the last worker's action returned.
C5_ResultMatchesSuccess ==
    \A i \in 1..Len(completions) :
        /\ ~completions[i].success => completions[i].result = None
        /\ completions[i].success => completions[i].result = completions[i].returned

\* C6: `assert self.result is None` is never violated.
C6_AssertNeverFails == ~assert_failed

\* C7 as written: workspace_dict is assigned at most once in the Job's lifetime.
C7_WorkspaceAssignedOnce == ws_assigned.total <= 1

\* C7 as amended: workspace_dict is assigned at most once per worker attempt,
\* hence at most once per spawn over the Job's lifetime; each assignment
\* stores the descriptor of the attempt that sent it.
C7_WorkspaceOncePerAttempt ==
    /\ ws_assigned.n <= 1
    /\ ws_assigned.total <= Spawns
    /\ ws_assigned.att <= tries
    /\ ws_assigned.total >= 1 => workspace_dict = ws_assigned.att

C7_Witness ==
    /\ ws_assigned.total = 2
    /\ ws_assigned.att = 2
    /\ DomainFailure(procs[1])
    /\ DomainFailure(procs[2])

\* The Job was never terminated, its attempts before the last all failed with
\* a domain error and the last one succeeded and was reaped.
RetriedThenSucceeded ==
    /\ ~terminated
    /\ AllReaped
    /\ Succeeded(procs[Spawns])
    /\ \A p \in 1..(Spawns - 1) : DomainFailure(procs[p])

\* C8: k domain failures (k <= max_retries), then a success: k+1 spawns and
\* no more, one complete_cb call, with success = true and the value the
\* (k+1)-th attempt returned.
C8_RetryThenSuccess ==
    RetriedThenSucceeded =>
        /\ Spawns - 1 <= max_retries
        /\ tries = Spawns
        /\ Len(completions) = 1
        /\ completions[1].success
        /\ completions[1].result = completions[1].returned
        /\ result = completions[1].result

C8_Witness ==
    /\ RetriedThenSucceeded
    /\ Spawns = 2
    /\ last_task_error.att = 1
    /\ Completed
    /\ completions[1].result = 2

\* C9: the token is reserved before the first spawn and held, without being
\* released or reserved again, while the Job has a child or awaits one; it is
\* released once, by the one complete_cb call.
C9_TokenHeldAcrossRetries ==
    /\ tokens \in {0, 1}
    /\ tries >= 1 => acquires = 1
    /\ (tries >= 1 /\ ~Completed) => (tokens = 1 /\ releases = 0)
    /\ (\E p \in Pids : procs[p].st # "reaped") => (tokens = 1 /\ releases = 0)
    /\ Completed => (tokens = 0 /\ releases = 1)

C9_Witness ==
    /\ Spawns >= 2
    /\ procs[Spawns].st = "running"
    /\ tokens = 1
    /\ acquires = 1
    /\ releases = 0

\* C10: after terminate() no worker is spawned any more, and complete_cb is
\* called with success = false.
C10_NoSpawnAfterTerminate ==
    /\ [][terminated => Len(procs') = Spawns]_vars
    /\ [](terminated => \A i \in 1..Len(completions) : ~completions[i].success)

\* The attempt's action raised an exception that is not a BstError.
Bug(c) == c.outcome = "bug"

\* C18: a Worker whose action raises an unhandled exception emits the BUG
\* message and nothing else: no Error, Result or Workspace envelope of that
\* attempt is ever on the channel, the attempt leaves nothing in the parent's
\* last-task-error slot, result or workspace_dict, and it exits nonzero.
C18_BugSendsNoEnvelope ==
    /\ [][\A p \in Pids :
            (~Bug(procs[p]) /\ Bug(procs'[p])) =>
                /\ queue' = Append(queue, Envelope("message", "BUG", procs[p].tries))
                /\ procs'[p].exit_code = 1]_vars
    /\ [](\A p \in Pids :
            Bug(procs[p]) =>
                /\ \A i \in 1..Len(queue) :
                      queue[i].att = procs[p].tries =>
                          queue[i].message_type = "message"
                /\ last_task_error.att # procs[p].tries
                /\ result # procs[p].tries
                /\ ws_assigned.att # procs[p].tries
                /\ Exited(procs[p]) => procs[p].exit_code # 0)

C18_Witness ==
    /\ Spawns = 2
    /\ DomainFailure(procs[1])
    /\ Bug(procs[2])
    /\ procs[2].st = "reaped"
    /\ last_task_error.att = 1
    /\ \E i \in 1..Len(forwarded) : forwarded[i] = "BUG"

\* --------------------------------------- claims about Queues and Scheduler
\* The Jobs in flight whose queue consumes resource class c.
InFlightOfClass(c) == {qe \in JobsInFlight : queue_type(qe[1]) = c}

\* The elements on the done list of queue q.
DoneItems(q) == {done[q][i].item : i \in 1..Len(done[q])}

\* The elements queue q spawned a Job for, in the order of the spawns.
RECURSIVE DispatchedFrom(_, _)
DispatchedFrom(q, d) ==
    IF d = <<>> THEN <<>>
    ELSE IF Head(d)[1] = q THEN <<Head(d)[2]>> \o DispatchedFrom(q, Tail(d))
    ELSE DispatchedFrom(q, Tail(d))

\* C11: for every resource class the tokens reserved are one per Job in
\* flight (dispatched and not finally completed) in the queues of that
\* class, and never more than the class has; so no Worker runs for a Job
\* that holds no token.
C11_TokensWithinCapacity ==
    \A c \in QueueTypes :
        /\ reserved[c] <= capacity[c]
        /\ reserved[c] = Cardinality(InFlightOfClass(c))

C11_Witness ==
    /\ capacity["FETCH"] = 2
    /\ reserved["FETCH"] = 2
    /\ \E e1 \in Items : jobs["Track"][e1].st = "running" /\ jobs["Track"][e1].tries = 2
    /\ \E e2 \in Items : jobs["Fetch"][e2].st = "running"

\* A Queue's max_concurrent: the capacity of its resource class.
max_concurrent(q) == capacity[queue_type(q)]

\* C12: in every Queue an element is in at most one of ready, processing
\* and done, active_jobs is the size of processing and is at most
\* max_concurrent.
C12_QueueInvariants ==
    \A q \in QueueNames :
        /\ Elements(ready[q]) \cap processing[q] = {}
        /\ Elements(ready[q]) \cap DoneItems(q) = {}
        /\ processing[q] \cap DoneItems(q) = {}
        /\ active_jobs[q] = Cardinality(processing[q])
        /\ active_jobs[q] <= max_concurrent(q)

C12_Witness ==
    /\ ready["Fetch"] # <<>>
    /\ processing["Fetch"] # {}
    /\ DoneItems("Track") # {}
    /\ active_jobs["Fetch"] = max_concurrent("Fetch")

\* The done hook of queue q was called for element e with return code 0
\* and returned keep = true.
PassedOn(q, e) ==
    \E i \in 1..Len(done[q]) :
        /\ done[q][i].item = e
        /\ ~done[q][i].skipped
        /\ done[q][i].success
        /\ done[q][i].keep

\* Queue q skipped element e.
SkippedBy(q, e) ==
    \E i \in 1..Len(done[q]) : done[q][i].item = e /\ done[q][i].skipped

ReadyItems(q) ==
    LET is_ready(e) == Queue_status(q, e) = "READY"
    IN  SelectSeq(enqueued[q], is_ready)

IsPrefix(a, b) == Len(a) <= Len(b) /\ \A i \in 1..Len(a) : a[i] = b[i]

\* C14: the Jobs of a Queue are spawned for its READY elements in the order
\* in which these were enqueued, none passed over; and with one token in the
\* class at most one Job is in flight at a time.
C14_FifoDispatch ==
    /\ \A q \in QueueNames : IsPrefix(DispatchedFrom(q, dispatched), ReadyItems(q))
    /\ \A c \in QueueTypes : capacity[c] = 1 => Cardinality(InFlightOfClass(c)) <= 1

C14_Witness ==
    /\ capacity["FETCH"] = 1
    /\ Len(enqueued["Fetch"]) >= 2
    /\ DispatchedFrom("Fetch", dispatched) = enqueued["Fetch"]
    /\ Len(finalized) = 1

SuspendEventHandled ==
    \/ signals' # signals
    \/ echoes' # echoes
    \/ sent' # sent
    \/ absorbed' # absorbed

\* C16: the suspend counter is never negative and stands for the suspend
\* signals Jobs have sent and no inbound event has yet been absorbed for, so
\* that no more events are absorbed than signals were sent; an event that
\* finds the counter above 0 takes one off it and does nothing else; an
\* event that finds it at 0 suspends every Job in flight and the scheduler.
C16_SuspendCounter ==
    /\ [](/\ internal_stops >= 0
          /\ absorbed + internal_stops = sent
          /\ absorbed <= sent)
    /\ [][(SuspendEventHandled /\ internal_stops > 0) =>
            /\ internal_stops' = internal_stops - 1
            /\ absorbed' = absorbed + 1
            /\ UNCHANGED <<jobs, sent, sched_suspended>>]_vars
    /\ [][(SuspendEventHandled /\ internal_stops = 0) =>
            /\ absorbed' = absorbed
            /\ sched_suspended'
            /\ \A q \in QueueNames : \A e \in Items :
                  InFlightJob(jobs[q][e]) =>
                      /\ jobs'[q][e].suspended
                      /\ jobs'[q][e].st = "stopped"]_vars

C16_Witness ==
    /\ sent = 2
    /\ absorbed = 2
    /\ internal_stops = 0
    /\ echoes = 0
    /\ signals = 1
    /\ sched_suspended

\* C17: a SKIP element (a tracked element without sources) never gets a Job
\* and is never in processing; once off the ready list it is on the done
\* list as skipped, counted in skipped_count, and enqueued on the next
\* queue; the tokens reserved remain one per Job in flight.  A tracked
\* element with sources is READY.
C17_SkipWithoutJob ==
    /\ \A e \in track_elements :
          ~sources[e] =>
              /\ jobs["Track"][e] = NoJob
              /\ e \notin processing["Track"]
              /\ \A i \in 1..Len(dispatched) : dispatched[i] # <<"Track", e>>
              /\ (method = "fetch" /\ e \notin Elements(ready["Track"])) =>
                    /\ SkippedBy("Track", e)
                    /\ e \in Elements(enqueued["Fetch"])
    /\ skipped_count["Track"] =
          Cardinality({i \in 1..Len(done["Track"]) :
                          \/ done["Track"][i].skipped
                          \/ done["Track"][i].success /\ ~done["Track"][i].keep})
    /\ \A c \in QueueTypes : reserved[c] = Cardinality(InFlightOfClass(c))
    /\ \A e \in track_elements :
          sources[e] =>
              /\ Queue_status("Track", e) = "READY"
              /\ ~SkippedBy("Track", e)
              /\ (method = "fetch" /\ e \notin Elements(ready["Track"])) =>
                    jobs["Track"][e].tries >= 1

C17_Witness ==
    /\ \E e \in track_elements :
          /\ ~sources[e]
          /\ SkippedBy("Track", e)
          /\ e \in processing["Fetch"]
    /\ \E e \in track_elements :
          /\ sources[e]
          /\ jobs["Track"][e].st = "running"
    /\ skipped_count["Track"] = 1
    /\ reserved["FETCH"] = 2

\* ------------------------------------------------- claims about Stream
\* C19: once the scheduler has run, a Stream method raises StreamError() when
\* the status is ERROR, StreamError(terminated=True) when it is TERMINATED,
\* and returns normally when, and only when, it is SUCCESS.
C19_StreamRaisesOnStatus ==
    /\ status = "ERROR" => raised = "StreamError"
    /\ status = "TERMINATED" => raised = "StreamError_terminated"
    /\ status = "SUCCESS" => raised = "return"
    /\ raised = "return" => status = "SUCCESS"
    /\ method # "none" => raised # "none"

C19_Witness ==
    /\ method = "pull"
    /\ status = "TERMINATED"
    /\ raised = "StreamError_terminated"

\* The place of a queue in the list [Track, Pull, Fetch, Build, Push].
PipelineRank(q) ==
    CASE q = "Track" -> 1 [] q = "Pull" -> 2 [] q = "Fetch" -> 3
      [] q = "Build" -> 4 [] q = "Push" -> 5

InList(q, qs) == \E i \in 1..Len(qs) : qs[i] = q

\* C20: the list Stream.build hands to the scheduler is [Track?, Pull?, Fetch,
\* Build, Push?] in this order, Track present iff there are elements to track,
\* Pull iff there are fetch remotes, Push iff there are push remotes.
C20_BuildPipeline ==
    method = "build" =>
        /\ \A i \in 1..Len(queues) : \A j \in 1..Len(queues) :
              i < j => PipelineRank(queues[i]) < PipelineRank(queues[j])
        /\ InList("Fetch", queues)
        /\ InList("Build", queues)
        /\ InList("Track", queues) <=> track_elements # {}
        /\ InList("Pull", queues) <=> has_fetch_remotes
        /\ InList("Push", queues) <=> has_push_remotes

C20_Witness ==
    /\ method = "build"
    /\ queues = <<"Track", "Pull", "Fetch", "Build", "Push">>

\* ------------------------------------------------------------------ C21
\* No Job is outstanding: no Queue processes an element or holds a token.
NoJobOutstanding ==
    /\ \A q \in QueueNames : processing[q] = {} /\ active_jobs[q] = 0
    /\ \A c \in QueueTypes : reserved[c] = 0

\* No Queue has a pending element.
NoBacklog == \A q \in QueueNames : ready[q] = <<>>

\* C21, as stated: with every Worker exiting in the end and no signal, a
\* run over finitely many enqueued elements returns, and it returns only
\* when every queue is empty of pending elements and no Job is outstanding.
C21_TerminatesOnlyWhenEmpty ==
    /\ (sched_state = "RUNNING") ~> (sched_state = "returned")
    /\ [](sched_state = "returned" => NoBacklog /\ NoJobOutstanding)

\* C21, amended: such a run returns, and it returns only when no Job is
\* outstanding and either every queue is empty of pending elements, the
\* status being SUCCESS, or a Job has failed for good, the status being
\* ERROR.
C21_TerminatesDrainedOrFailed ==
    /\ (sched_state = "RUNNING") ~> (sched_state = "returned")
    /\ [](sched_state = "returned" =>
            /\ NoJobOutstanding
            /\ \/ NoBacklog /\ status = "SUCCESS"
               \/ (\E q \in QueueNames : failed_count[q] > 0) /\ status = "ERROR")

\* A run has returned ERROR with an element still pending, after a Job was
\* spawned a second time.
C21_Witness ==
    /\ sched_state = "returned"
    /\ status = "ERROR"
    /\ ~NoBacklog
    /\ \E q \in QueueNames : \E e \in Items : jobs[q][e].tries = 2

\* ------------------------------------------------------------------ C22
\* The envelopes of type message_type the Worker of attempt t has written
Sent(t, message_type) ==
    {i \in 1..Len(queue) : queue[i].att = t /\ queue[i].message_type = message_type}

\* The Workers forked by the attempt under way
Workers == {p \in Pids : procs[p].st # "reaped"}

\* Worker c is gone, by its own sys.exit or by a signal
Gone(c) == c.pc = "exited"
ExitedByItself(c) == Gone(c) /\ c.exit_code # RC_SIGTERM

\* C22, as stated: a Worker sends at most one Result envelope, and only on
\* the success path, never in an attempt that exits nonzero; at most one
\* Workspace envelope; after a domain error exactly one Error envelope with
\* (domain, reason), exiting with code 1; after a success no Error envelope,
\* exiting with code 0.  The last two are read of a Worker that runs to its
\* own exit.
C22_EnvelopesPerWorker ==
    \A p \in Workers :
       LET c == procs[p]
           t == c.tries
       IN  /\ Cardinality(Sent(t, "result")) <= 1
           /\ Sent(t, "result") # {} => c.outcome = "ok"
           /\ Sent(t, "result") # {} /\ Gone(c) => c.exit_code = 0
           /\ Cardinality(Sent(t, "workspace")) <= 1
           /\ c.outcome = "domain" /\ ExitedByItself(c) =>
                 /\ Cardinality(Sent(t, "error")) = 1
                 /\ \A i \in Sent(t, "error") : queue[i].message = BstErrorInfo(t)
                 /\ c.exit_code = 1
           /\ c.outcome = "ok" => Sent(t, "error") = {}
           /\ c.outcome = "ok" /\ ExitedByItself(c) => c.exit_code = 0

\* C22, amended: a Worker sends at most one Result envelope, and only on the
\* success path; at most one Workspace envelope; at most one Error envelope,
\* and only after a domain error.  A Worker that runs to its own exit sends
\* exactly one Error envelope with (domain, reason) and exits with code 1
\* after a domain error, and exits with code 0 after a success.  A Worker
\* that SIGTERM ends exits nonzero, whatever it has sent, its Result
\* envelope included.
C22_EnvelopesUnlessSignalled ==
    \A p \in Workers :
       LET c == procs[p]
           t == c.tries
       IN  /\ Cardinality(Sent(t, "result")) <= 1
           /\ Sent(t, "result") # {} => c.outcome = "ok"
           /\ Cardinality(Sent(t, "workspace")) <= 1
           /\ Cardinality(Sent(t, "error")) <= 1
           /\ Sent(t, "error") # {} => c.outcome = "domain"
           /\ \A i \in Sent(t, "error") : queue[i].message = BstErrorInfo(t)
           /\ c.outcome = "domain" /\ ExitedByItself(c) =>
                 /\ Cardinality(Sent(t, "error")) = 1
                 /\ c.exit_code = 1
           /\ c.outcome = "ok" /\ ExitedByItself(c) => c.exit_code = 0
           /\ Gone(c) /\ ~ExitedByItself(c) => c.exit_code # 0

\* A Worker has failed with a domain error and exited by itself, having
\* sent its Workspace and its Error envelope.
C22_Witness ==
    \E p \in Workers :
       /\ procs[p].outcome = "domain"
       /\ ExitedByItself(procs[p])
       /\ Sent(procs[p].tries, "workspace") # {}
       /\ Sent(procs[p].tries, "error") # {}

\* ------------------------------------------------------------------ C23
\* The action of Worker p raises a BstError in this step: the FAIL message.
EmitsFail(p) == procs[p].outcome = "pending" /\ procs'[p].outcome = "domain"

\* Every attempt of the Job failed with a domain error, the Job is final
\* and was not terminated.
FailedEveryAttempt ==
    /\ phase = "final"
    /\ ~terminated
    /\ \A p \in Pids : procs[p].outcome = "domain"

\* C23: the FAIL message of a Worker goes to the parent as WARN if tries <=
\* max_retries in that attempt and as FAIL otherwise, which is the attempt
\* max_retries + 1; the parent shows max_retries WARN and one FAIL for a
\* Job that fails on all max_retries + 1 attempts.
C23_FailShownAsWarnWhenRetried ==
    /\ [][\A p \in Pids : EmitsFail(p) =>
            /\ Len(queue') = Len(queue) + 1
            /\ queue'[Len(queue')] =
                  Envelope("message",
                           IF procs[p].tries <= max_retries THEN "WARN" ELSE "FAIL",
                           procs[p].tries)]_vars
    /\ [](\A i \in 1..Len(queue) :
            /\ queue[i].message_type = "message" /\ queue[i].message = "WARN"
                  => queue[i].att <= max_retries
            /\ queue[i].message_type = "message" /\ queue[i].message = "FAIL"
                  => queue[i].att = max_retries + 1)
    /\ [](FailedEveryAttempt =>
            /\ Len(procs) = max_retries + 1
            /\ displayed = [WARN |-> max_retries, FAIL |-> 1])

\* A Job with one retry has failed twice and is final: one WARN, one FAIL.
C23_Witness ==
    /\ FailedEveryAttempt
    /\ max_retries = 1
    /\ displayed = [WARN |-> 1, FAIL |-> 1]

\* ------------------------------------------------------------------ C24
\* This step is the reap of a Worker that ends in complete_cb, or in the
\* spawn of the next attempt.
ReapCompletes == completions' # completions
ReapRespawns == phase = "active" /\ Len(procs') > Len(procs)

\* The envelopes of type message_type on the queue, and the last of them
Pending(message_type) == {i \in 1..Len(queue) : queue[i].message_type = message_type}
LastPending(message_type) ==
    queue[CHOOSE i \in Pending(message_type) :
              \A j \in Pending(message_type) : j <= i].message
PendingMessages(message) ==
    Cardinality({i \in Pending("message") : queue[i].message = message})

\* C24: when the reap of a Worker ends in complete_cb or in a re-spawn, the
\* queue has been drained to the last envelope and the reader deregistered
\* before; for a Job that was not terminated every envelope that was
\* pending has been dispatched: the Result, Workspace and Error envelopes
\* are stored, the messages handed on.
C24_DrainedBeforeDecision ==
    [][ReapCompletes \/ ReapRespawns =>
          /\ queue' = <<>>
          /\ ReapCompletes => ~listening' /\ readers' = 0
          /\ ReapRespawns => listening' /\ readers' = 1
          /\ ~terminated =>
                /\ Pending("result") # {} => result' = LastPending("result")
                /\ Pending("workspace") # {} =>
                      workspace_dict' = LastPending("workspace")
                /\ Pending("error") # {} =>
                      last_task_error' = LastPending("error")
                /\ displayed'.WARN = displayed.WARN + PendingMessages("WARN")
                /\ displayed'.FAIL = displayed.FAIL + PendingMessages("FAIL")
                /\ ReapCompletes =>
                      completions'[Len(completions')].result = result']_vars

\* The second attempt of a Job was reaped and complete_cb called with what
\* its envelopes brought: the workspace and the error of attempt 2.
C24_Witness ==
    /\ phase = "final"
    /\ ~terminated
    /\ queue = <<>>
    /\ ~listening
    /\ Len(procs) = 2
    /\ workspace_dict = 2
    /\ last_task_error = BstErrorInfo(2)
    /\ displayed = [WARN |-> 1, FAIL |-> 1]

\* ------------------------------------------------------------------ C25
\* C25: terminate() resumes the child if it is suspended, stops listening
\* and sends SIGTERM, in this order, so that afterwards suspended and
\* listening are false and a child that was alive is dead; and every
\* envelope dispatched after terminate() is discarded: result,
\* workspace_dict and the last task error stay as they are and no message
\* is handed on.
C25_TerminateDiscards ==
    /\ [][~terminated /\ terminated' =>
            /\ ~suspended'
            /\ ~listening'
            /\ readers' = 0
            /\ Alive(pid) => procs'[pid].st = "zombie"
                             /\ procs'[pid].exit_code = RC_SIGTERM]_vars
    /\ [][terminated =>
            /\ result' = result
            /\ workspace_dict' = workspace_dict
            /\ last_task_error' = last_task_error
            /\ displayed' = displayed
            /\ Len(forwarded') <= Len(forwarded)]_vars

\* ------------------------------------------------------------------ C26
\* C26: the suspended flag and scheduler.internal_stops change only thus:
\* suspend() on a Job that is not suspended and whose child is alive stops
\* the child, sets the flag and adds one to the counter; resume() (and
\* terminate(), which calls it) on a suspended Job continues the child and
\* clears the flag, the counter staying as it is.  suspend() on a suspended
\* Job or on one whose child has exited, and resume() on a Job that is not
\* suspended, change neither.
C26_SuspendResumeAlgebra ==
    [][suspended' # suspended \/ internal_stops' # internal_stops =>
          \/ /\ ~suspended /\ suspended'
             /\ internal_stops' = internal_stops + 1
             /\ Alive(pid)
             /\ procs'[pid].st = "stopped"
          \/ /\ suspended /\ ~suspended'
             /\ internal_stops' = internal_stops
             /\ procs[pid].st = "stopped" =>
                   procs'[pid].st \in {"running", "zombie"}]_vars

\* ------------------------------------------------------------------ C27
\* spawn() has ended, by its return or by an exception.
SpawnEnded == spawn_pc \in {"returned", "raised"}

\* C27: the child is forked with SIGINT blocked and without the loop's
\* SIGTSTP handler, and when spawn() has ended on whatever path, a failure
\* to start the child included, SIGINT has its old mask back in the parent
\* and the SIGTSTP handler is installed again.
C27_SignalsAroundSpawn ==
    /\ inherited.forked => inherited.sigint_blocked /\ ~inherited.sigtstp_handler
    /\ SpawnEnded => ~sigint_blocked /\ sigtstp_handler

\* ------------------------------------------------------------------ C28
\* C28: in every state listening is true exactly when one reader is
\* registered for the Job's queue, and never is there a second one, spawn
\* and re-spawn included; none is registered once the Job is final, nor
\* when terminate() returns.
C28_ListeningIffOneReader ==
    /\ [](listening <=> readers = 1)
    /\ [](readers \in {0, 1})
    /\ [](phase = "final" => readers = 0)
    /\ [][~terminated /\ terminated' => readers' = 0]_vars

\* The Job was spawned a second time and is listening with its one reader.
C28_Witness ==
    /\ tries = 2
    /\ procs[1].st = "reaped"
    /\ Alive(2)
    /\ listening
    /\ readers = 1

\* ------------------------------------------------------------------ C29
\* Worker c has begun its shutdown: its end of the queue is closed and
\* SystemExit is on its way.
ShutdownBegun(c) == c.pc = "exiting"

\* C29: on every path the Worker closes the queue and exits only after it
\* has left the scope of _signals.suspendable, so that no handler of that
\* scope runs once the shutdown has begun.
C29_ShutdownOutsideScope ==
    /\ \A p \in Workers : ShutdownBegun(procs[p]) => ~InScope(procs[p])
    /\ stop_handled # "exiting"

\* ---------------------------------------------------------------------- C30
\* C30: TrackQueue.done called with a nonzero return code returns False and
\* leaves the element and its sources as they were: no ref is saved, no
\* warning is issued, the state of the element is not updated and the result
\* argument is not read, whatever that argument holds.
C30_FailedTrackLeavesElement ==
    [][(tracking.pc = "called" /\ tracking.returncode # 0)
          => /\ tracking'.pc = "returned"
             /\ tracking'.returned = FALSE
             /\ tracking'.refs = tracking.refs
             /\ tracking'.warned = 0
             /\ ~tracking'.updated
             /\ ~tracking'.read]_vars

\* done has returned for a Job that failed, and the result it was handed
\* names a ref that differs from the one in the project file.
C30_Witness ==
    /\ tracking.pc = "returned"
    /\ tracking.returncode # 0
    /\ tracking.result.given
    /\ \E i \in 1..Len(tracking.result.refs) :
          /\ tracking.result.refs[i][1] \notin tracking.save_fails
          /\ tracking.refs[tracking.result.refs[i][1]] # tracking.result.refs[i][2]

\* ---------------------------------------------------------------------- C31
\* The entries of the result whose save raises SourceError.
FailingSaves(t) ==
    {i \in 1..Len(t.result.refs) : t.result.refs[i][1] \in t.save_fails}

\* C31: when done is called for a successful Job and saving a ref raises
\* SourceError, done returns without raising: one warning is issued for each
\* failed save, every other ref of the result is saved, also those after the
\* failed one, the state of the element is updated, and the Scheduler is
\* given no reason to go to ERROR.
C31_SaveFailureIsWarning ==
    [][(/\ tracking.pc = "called"
        /\ tracking.returncode = 0
        /\ FailingSaves(tracking) # {})
          => /\ tracking'.pc = "returned"
             /\ ~tracking'.raised
             /\ ~Scheduler_fatal(tracking')
             /\ tracking'.warned = Cardinality(FailingSaves(tracking))
             /\ \A i \in 1..Len(tracking.result.refs) :
                   LET unique_id == tracking.result.refs[i][1]
                       new_ref == tracking.result.refs[i][2]
                   IN  i \notin FailingSaves(tracking)
                          => tracking'.refs[unique_id] = new_ref
             /\ \A s \in 1..NSources :
                   (\A i \in 1..Len(tracking.result.refs) :
                       tracking.result.refs[i][1] # s)
                      => tracking'.refs[s] = tracking.refs[s]
             /\ tracking'.updated]_vars

\* done has returned for a successful Job: the save of the first ref of the
\* result failed and was warned about, the one after it was saved.
C31_Witness ==
    /\ tracking.pc = "returned"
    /\ tracking.returncode = 0
    /\ Len(tracking.result.refs) >= 2
    /\ tracking.result.refs[1][1] \in tracking.save_fails
    /\ tracking.result.refs[2][1] \notin tracking.save_fails
    /\ tracking.result.refs[2][2] = 2
    /\ tracking.refs[tracking.result.refs[2][1]] = 2
    /\ tracking.warned = 1
    /\ tracking.updated

\* ---------------------------------------------------------------------- C32
\* C32: for a successful tracking Job, done returns true when the ref of at
\* least one source was changed by it, and false only when none was.
C32_ReturnsWhetherChanged ==
    [][(tracking.pc = "called" /\ tracking.returncode = 0)
          => /\ tracking'.pc = "returned"
             /\ tracking'.returned =
                   (\E s \in 1..NSources : tracking'.refs[s] # tracking.refs[s])]_vars

\* ---------------------------------------------------------------------- C33
\* The queue the plan is enqueued in: the one after Track when there are
\* elements to track, else the first.
PlanQueue == IF track_elements # {} THEN queues[2] ELSE queues[1]

\* C33: when Stream.fetch or Stream.build has enqueued, no element is in the
\* ready lists of two queues: the elements to be tracked are in the Track
\* queue and in no other, the queue after it holds the plan without them,
\* every other queue holds nothing, and the Fetch queue of Stream.fetch
\* holds no element whose consistency is CACHED.
C33_EnqueuedInOneQueue ==
    method \in {"fetch", "build"} =>
        /\ \A q1 \in QueueNames : \A q2 \in QueueNames :
              q1 # q2 => Elements(ready[q1]) \cap Elements(ready[q2]) = {}
        /\ Elements(ready["Track"]) = track_elements
        /\ \A q \in QueueNames \ {"Track"} :
              Elements(ready[q]) \cap track_elements = {}
        /\ Elements(ready[PlanQueue]) \subseteq Elements(dependencies) \ track_elements
        /\ method = "build" =>
              Elements(ready[PlanQueue]) = Elements(dependencies) \ track_elements
        /\ \A q \in QueueNames \ {"Track", PlanQueue} : ready[q] = <<>>
        /\ method = "fetch" =>
              /\ PlanQueue = "Fetch"
              /\ Elements(ready["Fetch"]) =
                    {e \in Elements(dependencies) \ track_elements :
                        consistency[e] # "CACHED"}

\* Stream.fetch has enqueued a tracked element in Track only, although its
\* sources are cached, and of the others the one that is not cached in Fetch.
C33_Witness ==
    /\ method = "fetch"
    /\ \E e \in track_elements :
          /\ consistency[e] = "CACHED"
          /\ ready["Track"] = <<e>>
    /\ \E e \in Items \ track_elements :
          /\ consistency[e] = "RESOLVED"
          /\ ready["Fetch"] = <<e>>

\* Stream.build has enqueued the tracked elements in Track and the rest of
\* the plan in the queue after it, here Pull.
C33_WitnessBuild ==
    /\ method = "build"
    /\ track_elements # {}
    /\ track_elements # Items
    /\ PlanQueue = "Pull"
    /\ Elements(ready["Pull"]) = Items \ track_elements

====
